---------------------------- MODULE Spec2Model ----------------------------
(***************************************************************************)
(* The MoneyPot escrow ledger (contracts/MoneyPot.sol on top of            *)
(* contracts/MoneyPotToken.sol and contracts/MoneyPotPyth.sol) as a state  *)
(* machine.  One action per external function.  Each function f has an     *)
(* operator fErr giving the error the call ends in ("ok" when it goes      *)
(* through); a call that reverts leaves the contract storage and the token *)
(* ledger as they were.                                                    *)
(*                                                                         *)
(* Amounts are in the token's smallest unit.  TLC's integers are 32 bits   *)
(* wide, so MIN_FEE (100 gwei = 10^11 in the source) is kept as the number *)
(* 100: the ledger only compares fees with it.                             *)
(***************************************************************************)
EXTENDS Integers, Sequences, FiniteSets

\* ------------------------------------------------------------- constants
DIFFICULTY_MOD == 9
HUNTER_SHARE_PERCENT == 60
CREATOR_ENTRY_FEE_SHARE_PERCENT == 50
MIN_FEE == 100
\* the attempt window added to block.timestamp in attemptPot
ATTEMPT_WINDOW == 300

\* ------------------------------------------------------------ arithmetic
\* the creator share rounded up instead of down
creatorShareOf_roundUp(entryFee) ==
    (entryFee * CREATOR_ENTRY_FEE_SHARE_PERCENT + 99) \div 100

creatorShareOf(entryFee) == (entryFee * CREATOR_ENTRY_FEE_SHARE_PERCENT) \div 100

\* the platform share computed as a percentage of its own, not as the rest
platformShareOf_half(entryFee) ==
    (entryFee * (100 - CREATOR_ENTRY_FEE_SHARE_PERCENT)) \div 100

\* the whole entry fee kept as platform share, on top of the creator share
platformShareOf_whole(entryFee) == entryFee

platformShareOf(entryFee) == entryFee - creatorShareOf(entryFee)

\* the hunter share rounded up instead of down
hunterShareOf_roundUp(totalAmount) ==
    (totalAmount * HUNTER_SHARE_PERCENT + 99) \div 100

hunterShareOf(totalAmount) == (totalAmount * HUNTER_SHARE_PERCENT) \div 100

\* the difficulty without the wrap at DIFFICULTY_MOD
difficultyOf_noWrap(attemptsCount) == attemptsCount + 3

difficultyOf(attemptsCount) == (attemptsCount % DIFFICULTY_MOD) + 3

\* ---------------------------------------------------------------- bounds
\* pots and attempts created, and blocks mined, in one run of Spec
MaxPots == 2
MaxAttempts == 2
MaxTicks == 2
\* pots and attempts created in one run of SpecDifficulty
DeepPots == 2
DeepAttempts == 11
\* pots and attempts created in one run of SpecFees
FeePots == 1
FeeAttempts == 3
\* pots created in one run of SpecCreate
CreatePots == 2
\* pots and attempts created in one run of SpecReentry, and nested calls
\* the token makes while it has control
ReentryPots == 1
ReentryAttempts == 2
MaxReentries == 2
\* pots and attempts created, and blocks mined, in one run of SpecLive
LivePots == 1
LiveAttempts == 1
LiveTicks == 3
\* pots and attempts created in one run of SpecRotate
RotatePots == 1
RotateAttempts == 2
\* pots and attempts created in one run of SpecLog
LogPots == 2
LogAttempts == 2
\* pots and attempts created in one run of SpecScenario
ScenarioPots == 1
ScenarioAttempts == 2

ProxyPots == 1
ProxyAttempts == 1

\* block.timestamp advances on a grid of half attempt windows
TickStep == ATTEMPT_WINDOW \div 2
MaxTime == MaxTicks * TickStep
LiveTime == LiveTicks * TickStep

\* ------------------------------------------------------------- addresses
ZeroAddr == "0x0"
Escrow == "moneyPot"
Token == "token"
Pyth == "pyth"
Owner == "owner"
Users == {"owner", "alice", "bob"}
Accounts == Users \cup {Escrow}

\* ------------------------------------------------------- inputs of calls
Amounts == {MIN_FEE + 1}
Fees == {MIN_FEE - 1, MIN_FEE + 1, MIN_FEE + 2}
Durations == {TickStep, 3 * TickStep}
TokenArgs == {ZeroAddr, Token}
VerifierArgs == {ZeroAddr, "alice", "bob"}
PythArgs == {ZeroAddr, Pyth}
EthValues == {0, 1}
EthQuotes == {1, 2}
OneFa == "0x1234"
\* the stakes and entry fees of SpecFees, around MIN_FEE and around each other
WideAmounts == MIN_FEE..(MIN_FEE + 2)
WideFees == (MIN_FEE - 1)..(MIN_FEE + 3)

\* the durations of SpecCreate: none at all, and one step of the clock
ZeroDurations == {0, TickStep}

\* the keys of the two mappings that the model follows; the last key of
\* each is never assigned and stands for every id that was never created
PotIds == 0..(IF DeepPots > MaxPots THEN DeepPots ELSE MaxPots)
AttemptIds == 0..(IF DeepAttempts > MaxAttempts THEN DeepAttempts
                  ELSE MaxAttempts)

\* the token ledger before the first call: alice holds three stakes and has
\* approved the contract for one unit less, bob holds one stake and has
\* approved the contract for a stake and a creator share
InitialBalance == [a \in Accounts |->
    CASE a = "alice" -> 3 * (MIN_FEE + 1) - 1
      [] a = "bob" -> MIN_FEE + 1
      [] OTHER -> 0]
InitialAllowance == [a \in Users |->
    CASE a = "alice" -> 3 * (MIN_FEE + 1) - 1
      [] a = "bob" -> MIN_FEE + 1 + creatorShareOf(MIN_FEE + 1)
      [] OTHER -> 0]

\* the token ledger of SpecDifficulty: alice can pay for every pot and
\* every attempt, bob for two attempts
DeepBalance == [a \in Accounts |->
    CASE a = "alice" -> (DeepPots + DeepAttempts) * (MIN_FEE + 1)
      [] a = "bob" -> 2 * (MIN_FEE + 1)
      [] OTHER -> 0]
DeepAllowance == [a \in Users |-> DeepBalance[a]]

\* the token ledger of SpecFees: alice and bob can pay for every call
WideBalance == [a \in Accounts |->
    IF a \in {"alice", "bob"} THEN 4 * (MIN_FEE + 4) ELSE 0]
WideAllowance == [a \in Users |-> WideBalance[a]]

VARIABLES
    now,            \* block.timestamp
    underlying,     \* MoneyPotToken.underlying
    verifier,       \* MoneyPot.verifier
    pythConfigured, \* MoneyPotPyth.pythConfigured
    nextPotId,
    nextAttemptId,
    pots,           \* mapping(uint256 => MoneyPotData)
    attempts,       \* mapping(uint256 => Attempt)
    potIds,         \* uint256[] potIds
    balances,       \* the underlying token's balances
    allowance,      \* the underlying token's allowances towards the contract
    custodyAllowance, \* the allowances the contract gave on its own tokens
    events,         \* the emitted events, oldest first
    outcome,        \* history: how each attempt was resolved
    entered,        \* ReentrancyGuard: the status is ENTERED
    frame           \* the guarded call that waits in an external token call

ledger == <<underlying, verifier, pythConfigured, nextPotId, nextAttemptId,
            pots, attempts, potIds, balances, allowance, events, outcome>>
guard == <<entered, frame>>
vars == <<now, ledger, guard, custodyAllowance>>

\* --------------------------------------------------------------- records
ZeroPot == [id |-> 0, creator |-> ZeroAddr, totalAmount |-> 0, fee |-> 0,
            createdAt |-> 0, expiresAt |-> 0, isActive |-> FALSE,
            attemptsCount |-> 0, oneFaAddress |-> ZeroAddr]

ZeroAttempt == [id |-> 0, potId |-> 0, hunter |-> ZeroAddr, expiresAt |-> 0,
                difficulty |-> 0, isCompleted |-> FALSE]

\* no guarded call, and no guarded call waiting; a guarded call is kept
\* with the arguments the model follows: createPot is called with the fee
\* equal to the stake and a duration of one TickStep
NoCall == [op |-> "none", caller |-> ZeroAddr, id |-> 0, to |-> ZeroAddr,
           amount |-> 0, status |-> FALSE]

NoFrame == [call |-> NoCall, saved |-> <<>>, refused |-> 0]

\* ------------------------------------------------------ the token ledger
\* IERC20.transferFrom called by the contract: needs a deployed token, the
\* balance and the allowance towards the contract
canTransferFrom(bal, alw, from, amount) ==
    /\ underlying = Token
    /\ bal[from] >= amount
    /\ alw[from] >= amount

\* the receiver credited and the sender not debited
balAfterMove_noDebit(bal, from, to, amount) ==
    [a \in Accounts |-> bal[a] + (IF a = to THEN amount ELSE 0)]

balAfterMove(bal, from, to, amount) ==
    [a \in Accounts |->
        bal[a] - (IF a = from THEN amount ELSE 0)
               + (IF a = to THEN amount ELSE 0)]

alwAfterMove(alw, from, amount) == [alw EXCEPT ![from] = @ - amount]

\* IERC20.transfer called by the contract
canTransfer(bal, amount) ==
    /\ underlying = Token
    /\ bal[Escrow] >= amount

\* ------------------------------------------------------------- reverting
\* a failed call that leaves a record of itself in the event log
Reverted_logged ==
    /\ events' = Append(events, [type |-> "Reverted", id |-> 0,
                                 who |-> ZeroAddr, timestamp |-> now])
    /\ UNCHANGED <<now, underlying, verifier, pythConfigured, nextPotId,
                   nextAttemptId, pots, attempts, potIds, balances, allowance,
                   outcome>>

\* revert: every write of the call is undone
Reverted == UNCHANGED <<now, ledger>>

\* ---------------------------------------------------------------- admin
initializeErr(caller) ==
    IF caller # Owner THEN "OwnableUnauthorizedAccount"
    ELSE IF underlying # ZeroAddr THEN "Already initialized"
    ELSE "ok"

initialize(caller, _token, _verifier) ==
    LET err == initializeErr(caller) IN
    IF err = "ok"
    THEN /\ underlying' = _token
         /\ verifier' = _verifier
         /\ UNCHANGED <<now, pythConfigured, nextPotId, nextAttemptId, pots,
                        attempts, potIds, balances, allowance, events, outcome>>
    ELSE Reverted

\* the rotation open to every caller
updateVerifierErr_anyone(caller, _verifier) ==
    IF _verifier = ZeroAddr THEN "Invalid verifier"
    ELSE "ok"

updateVerifierErr(caller, _verifier) ==
    IF caller # Owner THEN "OwnableUnauthorizedAccount"
    ELSE IF _verifier = ZeroAddr THEN "Invalid verifier"
    ELSE "ok"

updateVerifier(caller, _verifier) ==
    LET err == updateVerifierErr(caller, _verifier) IN
    IF err = "ok"
    THEN /\ verifier' = _verifier
         /\ UNCHANGED <<now, underlying, pythConfigured, nextPotId,
                        nextAttemptId, pots, attempts, potIds, balances,
                        allowance, events, outcome>>
    ELSE Reverted

initializePyth(caller, _pythInstance) ==
    /\ pythConfigured' = (_pythInstance # ZeroAddr)
    /\ UNCHANGED <<now, underlying, verifier, nextPotId, nextAttemptId, pots,
                   attempts, potIds, balances, allowance, events, outcome>>

\* address(this).balance: attemptPot is the one payable function, and its
\* msg.value branch always reverts, so no call leaves ETH in the contract
ethBalance == 0

\* withdrawEth: owner() is paid `amount` of the contract's ETH; the tokens
\* and the storage are not touched
withdrawEthErr(caller, amount) ==
    IF caller # Owner THEN "OwnableUnauthorizedAccount"
    ELSE IF ethBalance < amount THEN "Insufficient ETH balance"
    ELSE "ok"

withdrawEth(caller, amount) ==
    LET err == withdrawEthErr(caller, amount) IN
    IF err = "ok"
    THEN UNCHANGED <<now, ledger>>
    ELSE Reverted

\* emergencyWithdrawEth: owner() is paid all of the contract's ETH
emergencyWithdrawEthErr(caller) ==
    IF caller # Owner THEN "OwnableUnauthorizedAccount" ELSE "ok"

emergencyWithdrawEth(caller) ==
    LET err == emergencyWithdrawEthErr(caller) IN
    IF err = "ok"
    THEN UNCHANGED <<now, ledger>>
    ELSE Reverted

\* ------------------------------------------------------------- createPot
\* a fee equal to the stake refused
createPotErr_feeBelowAmount(caller, amount, fee) ==
    IF fee >= amount \/ fee < MIN_FEE THEN "InvalidFee"
    ELSE IF ~canTransferFrom(balances, allowance, caller, amount)
         THEN "TransferFailed"
    ELSE "ok"

createPotErr(caller, amount, fee) ==
    IF fee > amount \/ fee < MIN_FEE THEN "InvalidFee"
    ELSE IF ~canTransferFrom(balances, allowance, caller, amount)
         THEN "TransferFailed"
    ELSE "ok"

\* the expiry taken from the duration alone, not from block.timestamp
newPot_noClock(id, caller, amount, durationSeconds, fee, oneFaAddress) ==
    [id |-> id, creator |-> caller, totalAmount |-> amount, fee |-> fee,
     createdAt |-> now, expiresAt |-> durationSeconds,
     isActive |-> TRUE, attemptsCount |-> 0, oneFaAddress |-> oneFaAddress]

newPot(id, caller, amount, durationSeconds, fee, oneFaAddress) ==
    [id |-> id, creator |-> caller, totalAmount |-> amount, fee |-> fee,
     createdAt |-> now, expiresAt |-> now + durationSeconds,
     isActive |-> TRUE, attemptsCount |-> 0, oneFaAddress |-> oneFaAddress]

\* the id of the most recent pot handed out again
allocatedPotId_stale == IF nextPotId = 0 THEN 0 ELSE nextPotId - 1

\* uint256 id = nextPotId++: the value of the counter before the increment
allocatedPotId == nextPotId

createPot(caller, amount, durationSeconds, fee, oneFaAddress) ==
    LET err == createPotErr(caller, amount, fee)
        id == allocatedPotId
    IN
    IF err = "ok"
    THEN /\ nextPotId' = nextPotId + 1
         /\ pots' = [pots EXCEPT ![id] =
                newPot(id, caller, amount, durationSeconds, fee, oneFaAddress)]
         /\ potIds' = Append(potIds, id)
         /\ balances' = balAfterMove(balances, caller, Escrow, amount)
         /\ allowance' = alwAfterMove(allowance, caller, amount)
         /\ events' = Append(events, [type |-> "PotCreated", id |-> id,
                                      who |-> caller, timestamp |-> now])
         /\ UNCHANGED <<now, underlying, verifier, pythConfigured,
                        nextAttemptId, attempts, outcome>>
    ELSE Reverted

\* ------------------------------------------------------------ attemptPot
\* the msg.value > 0 branch: it ends in payable(address(this)).transfer,
\* and the contract has neither a receive nor a fallback function
ethPaymentErr(value, requiredEth) ==
    IF ~pythConfigured THEN "PythNotConfigured"
    ELSE IF value < requiredEth THEN "InsufficientEthPayment"
    ELSE "EthTransferFailed"

\* only the creator-share transfer looked at
tokenPaymentErr_firstOnly(caller, pot) ==
    IF ~canTransferFrom(balances, allowance, caller, creatorShareOf(pot.fee))
    THEN "TransferFailed"
    ELSE "ok"

\* the token branch: creator share first, then platform share
tokenPaymentErr(caller, pot) ==
    LET creatorShare == creatorShareOf(pot.fee)
        platformShare == platformShareOf(pot.fee)
    IN
    IF ~canTransferFrom(balances, allowance, caller, creatorShare)
    THEN "TransferFailed"
    ELSE IF ~canTransferFrom(
                balAfterMove(balances, caller, pot.creator, creatorShare),
                alwAfterMove(allowance, caller, creatorShare),
                caller, platformShare)
    THEN "TransferFailed"
    ELSE "ok"

\* the expiry check before the activity check
attemptPotErr_expiryFirst(caller, potId, value, requiredEth) ==
    LET pot == pots[potId] IN
    IF now >= pot.expiresAt THEN "ExpiredPot"
    ELSE IF ~pot.isActive THEN "PotNotActive"
    ELSE IF value > 0 THEN ethPaymentErr(value, requiredEth)
    ELSE tokenPaymentErr(caller, pot)

\* a pot still open to attempts at its expiresAt
attemptPotErr_boundary(caller, potId, value, requiredEth) ==
    LET pot == pots[potId] IN
    IF ~pot.isActive THEN "PotNotActive"
    ELSE IF now > pot.expiresAt THEN "ExpiredPot"
    ELSE IF value > 0 THEN ethPaymentErr(value, requiredEth)
    ELSE tokenPaymentErr(caller, pot)

attemptPotErr(caller, potId, value, requiredEth) ==
    LET pot == pots[potId] IN
    IF ~pot.isActive THEN "PotNotActive"
    ELSE IF now >= pot.expiresAt THEN "ExpiredPot"
    ELSE IF value > 0 THEN ethPaymentErr(value, requiredEth)
    ELSE tokenPaymentErr(caller, pot)

\* the attempt stored under the first pot, whichever pot was attempted
newAttempt_firstPot(attemptId, potId, caller, difficulty) ==
    [id |-> attemptId, potId |-> 0, hunter |-> caller,
     expiresAt |-> now + ATTEMPT_WINDOW, difficulty |-> difficulty,
     isCompleted |-> FALSE]

newAttempt(attemptId, potId, caller, difficulty) ==
    [id |-> attemptId, potId |-> potId, hunter |-> caller,
     expiresAt |-> now + ATTEMPT_WINDOW, difficulty |-> difficulty,
     isCompleted |-> FALSE]

attemptPot(caller, potId, value, requiredEth) ==
    LET err == attemptPotErr(caller, potId, value, requiredEth)
        pot == pots[potId]
        creatorShare == creatorShareOf(pot.fee)
        platformShare == platformShareOf(pot.fee)
        difficulty == difficultyOf(pot.attemptsCount)
        attemptId == nextAttemptId
    IN
    IF err = "ok"
    THEN /\ balances' = balAfterMove(
                balAfterMove(balances, caller, pot.creator, creatorShare),
                caller, Escrow, platformShare)
         /\ allowance' = alwAfterMove(
                alwAfterMove(allowance, caller, creatorShare),
                caller, platformShare)
         /\ pots' = [pots EXCEPT ![potId].attemptsCount = @ + 1]
         /\ nextAttemptId' = nextAttemptId + 1
         /\ attempts' = [attempts EXCEPT ![attemptId] =
                newAttempt(attemptId, potId, caller, difficulty)]
         /\ events' = Append(events, [type |-> "PotAttempted",
                id |-> attemptId, pot |-> potId, who |-> caller,
                timestamp |-> now])
         /\ UNCHANGED <<now, underlying, verifier, pythConfigured, nextPotId,
                        potIds, outcome>>
    ELSE Reverted

\* ------------------------------------------------------ attemptCompleted
\* the completed check before the checks of the pot
attemptCompletedErr_completedFirst(caller, attemptId, status) ==
    LET attempt == attempts[attemptId]
        pot == pots[attempt.potId]
    IN
    IF caller # verifier THEN "Unauthorized"
    ELSE IF attempt.isCompleted THEN "AttemptCompleted"
    ELSE IF ~pot.isActive THEN "PotNotActive"
    ELSE IF now >= pot.expiresAt THEN "ExpiredPot"
    ELSE IF now >= attempt.expiresAt THEN "AttemptExpired"
    ELSE IF status /\ ~canTransfer(balances, hunterShareOf(pot.totalAmount))
         THEN "TransferFailed"
    ELSE "ok"

\* the owner let through like the verifier
attemptCompletedErr_ownerAllowed(caller, attemptId, status) ==
    LET attempt == attempts[attemptId]
        pot == pots[attempt.potId]
    IN
    IF caller # verifier /\ caller # Owner THEN "Unauthorized"
    ELSE IF ~pot.isActive THEN "PotNotActive"
    ELSE IF now >= pot.expiresAt THEN "ExpiredPot"
    ELSE IF now >= attempt.expiresAt THEN "AttemptExpired"
    ELSE IF attempt.isCompleted THEN "AttemptCompleted"
    ELSE IF status /\ ~canTransfer(balances, hunterShareOf(pot.totalAmount))
         THEN "TransferFailed"
    ELSE "ok"

\* an attempt still resolvable at its expiresAt
attemptCompletedErr_lateOk(caller, attemptId, status) ==
    LET attempt == attempts[attemptId]
        pot == pots[attempt.potId]
    IN
    IF caller # verifier THEN "Unauthorized"
    ELSE IF ~pot.isActive THEN "PotNotActive"
    ELSE IF now >= pot.expiresAt THEN "ExpiredPot"
    ELSE IF now > attempt.expiresAt THEN "AttemptExpired"
    ELSE IF attempt.isCompleted THEN "AttemptCompleted"
    ELSE IF status /\ ~canTransfer(balances, hunterShareOf(pot.totalAmount))
         THEN "TransferFailed"
    ELSE "ok"

\* the completed check before the check of the attempt's window
attemptCompletedErr_completedBeforeExpired(caller, attemptId, status) ==
    LET attempt == attempts[attemptId]
        pot == pots[attempt.potId]
    IN
    IF caller # verifier THEN "Unauthorized"
    ELSE IF ~pot.isActive THEN "PotNotActive"
    ELSE IF now >= pot.expiresAt THEN "ExpiredPot"
    ELSE IF attempt.isCompleted THEN "AttemptCompleted"
    ELSE IF now >= attempt.expiresAt THEN "AttemptExpired"
    ELSE IF status /\ ~canTransfer(balances, hunterShareOf(pot.totalAmount))
         THEN "TransferFailed"
    ELSE "ok"

\* the attempt's window not checked at all
attemptCompletedErr_noWindow(caller, attemptId, status) ==
    LET attempt == attempts[attemptId]
        pot == pots[attempt.potId]
    IN
    IF caller # verifier THEN "Unauthorized"
    ELSE IF ~pot.isActive THEN "PotNotActive"
    ELSE IF now >= pot.expiresAt THEN "ExpiredPot"
    ELSE IF attempt.isCompleted THEN "AttemptCompleted"
    ELSE IF status /\ ~canTransfer(balances, hunterShareOf(pot.totalAmount))
         THEN "TransferFailed"
    ELSE "ok"

\* the time checked against the attempt's own window only
attemptCompletedErr_windowOnly(caller, attemptId, status) ==
    LET attempt == attempts[attemptId]
        pot == pots[attempt.potId]
    IN
    IF caller # verifier THEN "Unauthorized"
    ELSE IF ~pot.isActive THEN "PotNotActive"
    ELSE IF now >= attempt.expiresAt THEN "AttemptExpired"
    ELSE IF attempt.isCompleted THEN "AttemptCompleted"
    ELSE IF status /\ ~canTransfer(balances, hunterShareOf(pot.totalAmount))
         THEN "TransferFailed"
    ELSE "ok"

\* the pot's isActive flag not checked
attemptCompletedErr_closedOk(caller, attemptId, status) ==
    LET attempt == attempts[attemptId]
        pot == pots[attempt.potId]
    IN
    IF caller # verifier THEN "Unauthorized"
    ELSE IF now >= pot.expiresAt THEN "ExpiredPot"
    ELSE IF now >= attempt.expiresAt THEN "AttemptExpired"
    ELSE IF attempt.isCompleted THEN "AttemptCompleted"
    ELSE IF status /\ ~canTransfer(balances, hunterShareOf(pot.totalAmount))
         THEN "TransferFailed"
    ELSE "ok"

\* a pot still open to resolutions at its expiresAt
attemptCompletedErr_potBoundary(caller, attemptId, status) ==
    LET attempt == attempts[attemptId]
        pot == pots[attempt.potId]
    IN
    IF caller # verifier THEN "Unauthorized"
    ELSE IF ~pot.isActive THEN "PotNotActive"
    ELSE IF now > pot.expiresAt THEN "ExpiredPot"
    ELSE IF now >= attempt.expiresAt THEN "AttemptExpired"
    ELSE IF attempt.isCompleted THEN "AttemptCompleted"
    ELSE IF status /\ ~canTransfer(balances, hunterShareOf(pot.totalAmount))
         THEN "TransferFailed"
    ELSE "ok"

\* an expiresAt of zero read as a window that was never set
attemptCompletedErr_unsetWindow(caller, attemptId, status) ==
    LET attempt == attempts[attemptId]
        pot == pots[attempt.potId]
    IN
    IF caller # verifier THEN "Unauthorized"
    ELSE IF ~pot.isActive THEN "PotNotActive"
    ELSE IF now >= pot.expiresAt THEN "ExpiredPot"
    ELSE IF attempt.expiresAt # 0 /\ now >= attempt.expiresAt
         THEN "AttemptExpired"
    ELSE IF attempt.isCompleted THEN "AttemptCompleted"
    ELSE IF status /\ ~canTransfer(balances, hunterShareOf(pot.totalAmount))
         THEN "TransferFailed"
    ELSE "ok"

attemptCompletedErr(caller, attemptId, status) ==
    LET attempt == attempts[attemptId]
        pot == pots[attempt.potId]
    IN
    IF caller # verifier THEN "Unauthorized"
    ELSE IF ~pot.isActive THEN "PotNotActive"
    ELSE IF now >= pot.expiresAt THEN "ExpiredPot"
    ELSE IF now >= attempt.expiresAt THEN "AttemptExpired"
    ELSE IF attempt.isCompleted THEN "AttemptCompleted"
    ELSE IF status /\ ~canTransfer(balances, hunterShareOf(pot.totalAmount))
         THEN "TransferFailed"
    ELSE "ok"

\* the stake written off when the pot is solved
resolvedPot_emptied(pot, status) ==
    IF status THEN [pot EXCEPT !.isActive = FALSE, !.totalAmount = 0]
    ELSE pot

\* the pot closed by every resolution
resolvedPot_always(pot, status) == [pot EXCEPT !.isActive = FALSE]

\* the pot left open by a resolution with status true
resolvedPot_open(pot, status) == pot

\* if (status) pot.isActive = false
resolvedPot(pot, status) ==
    IF status THEN [pot EXCEPT !.isActive = FALSE] ELSE pot

\* PotFailed emitted for either status
resolutionEvent_failedAlways(attemptId, status) ==
    [type |-> "PotFailed", id |-> attemptId,
     who |-> attempts[attemptId].hunter, timestamp |-> now]

\* the event of a resolution: PotSolved names the pot and the hunter,
\* PotFailed the attempt and the hunter
resolutionEvent(attemptId, status) ==
    LET attempt == attempts[attemptId] IN
    IF status
    THEN [type |-> "PotSolved", id |-> attempt.potId, who |-> attempt.hunter,
          timestamp |-> now]
    ELSE [type |-> "PotFailed", id |-> attemptId, who |-> attempt.hunter,
          timestamp |-> now]

attemptCompleted(caller, attemptId, status) ==
    LET err == attemptCompletedErr(caller, attemptId, status)
        attempt == attempts[attemptId]
        pot == pots[attempt.potId]
        hunterShare == hunterShareOf(pot.totalAmount)
    IN
    IF err = "ok"
    THEN /\ attempts' = [attempts EXCEPT ![attemptId].isCompleted = TRUE]
         /\ pots' = [pots EXCEPT ![attempt.potId] = resolvedPot(pot, status)]
         /\ balances' = IF status
                         THEN balAfterMove(balances, Escrow, attempt.hunter,
                                           hunterShare)
                         ELSE balances
         /\ events' = Append(events, resolutionEvent(attemptId, status))
         /\ outcome' = [outcome EXCEPT ![attemptId] =
                IF status THEN "succeeded" ELSE "failed"]
         /\ UNCHANGED <<now, underlying, verifier, pythConfigured, nextPotId,
                        nextAttemptId, potIds, allowance>>
    ELSE Reverted

\* ------------------------------------------------------------- expirePot
\* a pot not yet expirable at its expiresAt
expirePotErr_strictlyAfter(potId) ==
    LET pot == pots[potId] IN
    IF ~pot.isActive THEN "PotNotActive"
    ELSE IF now <= pot.expiresAt THEN "NotExpired"
    ELSE IF ~canTransfer(balances, pot.totalAmount) THEN "TransferFailed"
    ELSE "ok"

\* the time check before the activity check
expirePotErr_timeFirst(potId) ==
    LET pot == pots[potId] IN
    IF now < pot.expiresAt THEN "NotExpired"
    ELSE IF ~pot.isActive THEN "PotNotActive"
    ELSE IF ~canTransfer(balances, pot.totalAmount) THEN "TransferFailed"
    ELSE "ok"

\* a pot that was attempted cannot be expired
expirePotErr_attemptedStays(potId) ==
    LET pot == pots[potId] IN
    IF ~pot.isActive THEN "PotNotActive"
    ELSE IF now < pot.expiresAt THEN "NotExpired"
    ELSE IF pot.attemptsCount > 0 THEN "PotAttempted"
    ELSE IF ~canTransfer(balances, pot.totalAmount) THEN "TransferFailed"
    ELSE "ok"

expirePotErr(potId) ==
    LET pot == pots[potId] IN
    IF ~pot.isActive THEN "PotNotActive"
    ELSE IF now < pot.expiresAt THEN "NotExpired"
    ELSE IF ~canTransfer(balances, pot.totalAmount) THEN "TransferFailed"
    ELSE "ok"

expirePot(caller, potId) ==
    LET err == expirePotErr(potId)
        pot == pots[potId]
    IN
    IF err = "ok"
    THEN /\ pots' = [pots EXCEPT ![potId].isActive = FALSE]
         /\ balances' = balAfterMove(balances, Escrow, pot.creator,
                                     pot.totalAmount)
         /\ events' = Append(events, [type |-> "PotExpired", id |-> potId,
                                      who |-> pot.creator, timestamp |-> now])
         /\ UNCHANGED <<now, underlying, verifier, pythConfigured, nextPotId,
                        nextAttemptId, attempts, potIds, allowance, outcome>>
    ELSE Reverted

\* ----------------------------------------------------------------- views
getPots == potIds

\* the first loop of getActivePots: the active pots among potIds[i..]
RECURSIVE countActive(_)
countActive(i) ==
    IF i > Len(potIds) THEN 0
    ELSE (IF pots[potIds[i]].isActive THEN 1 ELSE 0) + countActive(i + 1)

\* the active ids put in front of those found before
RECURSIVE fillActive_newestFirst(_, _)
fillActive_newestFirst(i, active) ==
    IF i > Len(potIds) THEN active
    ELSE fillActive_newestFirst(i + 1,
            IF pots[potIds[i]].isActive THEN <<potIds[i]>> \o active
            ELSE active)

\* the second loop: active[index++] = potIds[i] for the active pots
RECURSIVE fillActive(_, _)
fillActive(i, active) ==
    IF i > Len(potIds) THEN active
    ELSE fillActive(i + 1,
            IF pots[potIds[i]].isActive THEN Append(active, potIds[i])
            ELSE active)

\* an array of `count` elements, zero where the second loop wrote nothing
getActivePots ==
    LET count == countActive(1)
        filled == fillActive(1, <<>>)
    IN [i \in 1..count |-> IF i <= Len(filled) THEN filled[i] ELSE 0]

\* ------------------------------------------------------------------ time
\* a later block: block.timestamp grows
Tick ==
    /\ frame = NoFrame
    /\ now + TickStep <= MaxTime
    /\ now' = now + TickStep
    /\ UNCHANGED <<ledger, guard, custodyAllowance>>

\* a later block, up to the time `limit`
TickTo(limit) ==
    /\ frame = NoFrame
    /\ now + TickStep <= limit
    /\ now' = now + TickStep
    /\ UNCHANGED <<ledger, guard, custodyAllowance>>

\* ------------------------------------------------------ the proxy calls
\* MoneyPotToken.transfer: the caller's tokens, through the caller's
\* allowance towards the contract
transferErr(caller, amount) ==
    IF ~canTransferFrom(balances, allowance, caller, amount)
    THEN "TransferFailed"
    ELSE "ok"

transfer(caller, to, amount) ==
    LET err == transferErr(caller, amount) IN
    IF err = "ok"
    THEN /\ balances' = balAfterMove(balances, caller, to, amount)
         /\ allowance' = alwAfterMove(allowance, caller, amount)
         /\ UNCHANGED <<now, underlying, verifier, pythConfigured, nextPotId,
                        nextAttemptId, pots, attempts, potIds, events, outcome>>
    ELSE Reverted

\* MoneyPotToken.transferFrom: the tokens of `from`, through the allowance
\* of `from` towards the contract, whoever calls
transferFromErr(from, amount) ==
    IF ~canTransferFrom(balances, allowance, from, amount)
    THEN "TransferFailed"
    ELSE "ok"

transferFrom(caller, from, to, amount) ==
    LET err == transferFromErr(from, amount) IN
    IF err = "ok"
    THEN /\ balances' = balAfterMove(balances, from, to, amount)
         /\ allowance' = alwAfterMove(allowance, from, amount)
         /\ UNCHANGED <<now, underlying, verifier, pythConfigured, nextPotId,
                        nextAttemptId, pots, attempts, potIds, events, outcome>>
    ELSE Reverted

\* MoneyPotToken.transferFrom with the contract itself as `from`: the
\* contract's own tokens, through the allowance the contract gave to
\* itself, whoever calls
transferFromCustodyErr(amount) ==
    IF ~canTransferFrom(balances, custodyAllowance, Escrow, amount)
    THEN "TransferFailed"
    ELSE "ok"

transferFromCustody(caller, to, amount) ==
    LET err == transferFromCustodyErr(amount) IN
    IF err = "ok"
    THEN /\ balances' = balAfterMove(balances, Escrow, to, amount)
         /\ custodyAllowance' = alwAfterMove(custodyAllowance, Escrow, amount)
         /\ UNCHANGED <<now, underlying, verifier, pythConfigured, nextPotId,
                        nextAttemptId, pots, attempts, potIds, allowance,
                        events, outcome>>
    ELSE Reverted /\ UNCHANGED custodyAllowance

\* MoneyPotToken.approve: the contract calls approve of the underlying
\* token, so the owner of the allowance is the contract, whoever calls
approveErr ==
    IF underlying # Token THEN "ApproveFailed" ELSE "ok"

approve(caller, spender, amount) ==
    LET err == approveErr IN
    IF err = "ok"
    THEN /\ custodyAllowance' = [custodyAllowance EXCEPT ![spender] = amount]
         /\ UNCHANGED <<now, ledger>>
    ELSE Reverted /\ UNCHANGED custodyAllowance

\* ------------------------------------------------- the reentrancy guard
\* the nonReentrant modifier on entry
nonReentrantErr_unlocked == "ok"

nonReentrantErr ==
    IF entered THEN "ReentrancyGuardReentrantCall" ELSE "ok"

\* what the body of the guarded call `call` does
RunCall(call) ==
    CASE call.op = "createPot" ->
            createPot(call.caller, call.amount, TickStep, call.amount, OneFa)
      [] call.op = "attemptPot" -> attemptPot(call.caller, call.id, 0, 0)
      [] call.op = "attemptCompleted" ->
            attemptCompleted(call.caller, call.id, call.status)
      [] call.op = "expirePot" -> expirePot(call.caller, call.id)
      [] call.op = "transfer" -> transfer(call.caller, call.to, call.amount)
      [] call.op = "transferFrom" ->
            transferFrom(call.caller, call.caller, call.to, call.amount)

\* the body of `call` gets as far as a call of the underlying token
ReachesTokenCall(call) ==
    CASE call.op = "createPot" ->
            createPotErr(call.caller, call.amount, call.amount)
                \in {"ok", "TransferFailed"}
      [] call.op = "attemptPot" ->
            attemptPotErr(call.caller, call.id, 0, 0)
                \in {"ok", "TransferFailed"}
      [] call.op = "attemptCompleted" ->
            /\ call.status
            /\ attemptCompletedErr(call.caller, call.id, TRUE)
                  \in {"ok", "TransferFailed"}
      [] call.op = "expirePot" ->
            expirePotErr(call.id) \in {"ok", "TransferFailed"}
      [] call.op = "transfer" -> underlying # ZeroAddr
      [] call.op = "transferFrom" -> underlying # ZeroAddr

\* a guarded call from outside: the guard is taken, the body runs up to
\* its call of the underlying token, and the token has control.  The
\* writes the body made before that call are read by guarded functions
\* only, none of which gets past the guard, so the frame keeps them.
Enter(call) ==
    /\ frame = NoFrame
    /\ nonReentrantErr = "ok"
    /\ ReachesTokenCall(call)
    /\ entered' = TRUE
    /\ frame' = [call |-> call, saved |-> ledger, refused |-> 0]
    /\ UNCHANGED <<now, ledger, custodyAllowance>>

\* the token calls a guarded function while it has control
Reenter(call, cap) ==
    /\ frame # NoFrame
    /\ frame.refused < cap
    /\ IF nonReentrantErr = "ok"
       THEN RunCall(call) /\ UNCHANGED <<guard, custodyAllowance>>
       ELSE /\ frame' = [frame EXCEPT !.refused = @ + 1]
            /\ UNCHANGED <<now, ledger, entered, custodyAllowance>>

\* the token returns, having kept a refused nested call to itself: the
\* body goes on, and the guard is released on the way out
Return ==
    /\ frame # NoFrame
    /\ RunCall(frame.call)
    /\ entered' = FALSE
    /\ frame' = NoFrame
    /\ UNCHANGED custodyAllowance

\* the token passes the failure of a nested call on: its own call fails,
\* and the transaction reverts, the guard's status with it
Revert ==
    /\ frame # NoFrame
    /\ frame.refused > 0
    /\ entered' = FALSE
    /\ frame' = NoFrame
    /\ UNCHANGED <<now, ledger, custodyAllowance>>

\* --------------------------------------------------------- specification
\* the contract as deployed: nothing initialized, every mapping empty
Deployed ==
    /\ now = 0
    /\ underlying = ZeroAddr
    /\ verifier = ZeroAddr
    /\ pythConfigured = FALSE
    /\ nextPotId = 0
    /\ nextAttemptId = 0
    /\ pots = [p \in PotIds |-> ZeroPot]
    /\ attempts = [a \in AttemptIds |-> ZeroAttempt]
    /\ potIds = <<>>
    /\ events = <<>>
    /\ outcome = [a \in AttemptIds |-> "none"]
    /\ entered = FALSE
    /\ frame = NoFrame
    /\ custodyAllowance = [a \in Accounts |-> 0]

Init ==
    /\ Deployed
    /\ balances = InitialBalance
    /\ allowance = InitialAllowance

\* the owner sets the token and the verifier v
InitializeWith(v) ==
    /\ frame = NoFrame
    /\ initialize(Owner, Token, v)
    /\ UNCHANGED <<guard, custodyAllowance>>

Initialize == \E c \in Users, t \in TokenArgs, v \in VerifierArgs :
    initialize(c, t, v) /\ UNCHANGED <<guard, custodyAllowance>>

UpdateVerifier == \E c \in Users, v \in VerifierArgs :
    updateVerifier(c, v) /\ UNCHANGED <<guard, custodyAllowance>>

InitializePyth == \E c \in Users, p \in PythArgs :
    initializePyth(c, p) /\ UNCHANGED <<guard, custodyAllowance>>

\* at most `cap` pots are created
CreatePot(callers, amounts, fees, durations, cap) ==
    \E c \in callers, a \in amounts, d \in durations, f \in fees :
        /\ createPotErr(c, a, f) = "ok" => nextPotId < cap
        /\ createPot(c, a, d, f, OneFa)
        /\ UNCHANGED <<guard, custodyAllowance>>

\* at most `cap` attempts are created; requiredEth is the price feed's quote
AttemptPot(callers, ids, values, cap) ==
    \E c \in callers, p \in ids, v \in values :
        \E q \in IF v = 0 THEN {0} ELSE EthQuotes :
            /\ attemptPotErr(c, p, v, q) = "ok" => nextAttemptId < cap
            /\ attemptPot(c, p, v, q)
            /\ UNCHANGED <<guard, custodyAllowance>>

AttemptCompleted(ids) == \E c \in Users, a \in ids, s \in BOOLEAN :
    attemptCompleted(c, a, s) /\ UNCHANGED <<guard, custodyAllowance>>

ExpirePot == \E c \in Users, p \in PotIds :
    expirePot(c, p) /\ UNCHANGED <<guard, custodyAllowance>>

Next ==
    \/ Initialize
    \/ UpdateVerifier
    \/ InitializePyth
    \/ CreatePot(Users, Amounts, Fees, Durations, MaxPots)
    \/ AttemptPot(Users, PotIds, EthValues, MaxAttempts)
    \/ AttemptCompleted(0..MaxAttempts)
    \/ ExpirePot
    \/ Tick

Spec == Init /\ [][Next]_vars

\* Long runs of attempts: alice creates the pots and attempts pot 0 again
\* and again, bob can pay for two attempts on any pot; token payments
\* only, the verifier fixed at initialization, and only the first attempt
\* is ever resolved.
InitDifficulty ==
    /\ Deployed
    /\ balances = DeepBalance
    /\ allowance = DeepAllowance

NextDifficulty ==
    \/ InitializeWith("bob")
    \/ CreatePot({"alice"}, Amounts, Fees, {3 * TickStep}, DeepPots)
    \/ AttemptPot({"alice"}, {0}, {0}, DeepAttempts)
    \/ AttemptPot({"bob"}, PotIds, {0}, DeepAttempts)
    \/ AttemptCompleted({0})

SpecDifficulty == InitDifficulty /\ [][NextDifficulty]_vars

\* Stakes and entry fees: alice creates pots with every pair of a stake and
\* a fee around MIN_FEE; the pots are attempted by anyone, through both
\* payment branches, and never resolved.
InitFees ==
    /\ Deployed
    /\ balances = WideBalance
    /\ allowance = WideAllowance

NextFees ==
    \/ InitializeWith("bob")
    \/ InitializePyth
    \/ CreatePot({"alice"}, WideAmounts, WideFees, {3 * TickStep}, FeePots)
    \/ AttemptPot(Users, PotIds, EthValues, FeeAttempts)

SpecFees == InitFees /\ [][NextFees]_vars


\* Creation with every argument: alice, who can pay, and the owner, who
\* cannot, create pots with every stake and fee around MIN_FEE and with
\* durations from 0 on; the clock moves and the pots expire.
InitCreate ==
    /\ Deployed
    /\ balances = WideBalance
    /\ allowance = WideAllowance

NextCreate ==
    \/ InitializeWith("bob")
    \/ CreatePot({"alice", Owner}, WideAmounts, WideFees, ZeroDurations,
                 CreatePots)
    \/ ExpirePot
    \/ Tick

SpecCreate == InitCreate /\ [][NextCreate]_vars


\* A token that calls back: every guarded call that gets as far as its
\* token call hands control to the token, which calls guarded functions
\* of the contract before it returns or fails.  alice and bob hold three
\* stakes each; bob is the verifier.
GuardedCall(op, caller, id, to, amount, status) ==
    [op |-> op, caller |-> caller, id |-> id, to |-> to, amount |-> amount,
     status |-> status]

GuardedCalls ==
    {GuardedCall("createPot", "alice", 0, ZeroAddr, MIN_FEE + 1, FALSE)}
    \cup {GuardedCall("attemptPot", h, 0, ZeroAddr, 0, FALSE) :
            h \in {"alice", "bob"}}
    \cup {GuardedCall("attemptCompleted", "bob", a, ZeroAddr, 0, s) :
            a \in 0..1, s \in BOOLEAN}
    \cup {GuardedCall("expirePot", "bob", 0, ZeroAddr, 0, FALSE)}
    \cup {GuardedCall("transfer", "alice", 0, "bob", MIN_FEE + 1, FALSE)}
    \cup {GuardedCall("transferFrom", "bob", 0, "alice", MIN_FEE + 1, FALSE)}

ReentryBalance == [a \in Accounts |->
    IF a \in {"alice", "bob"} THEN 3 * (MIN_FEE + 1) ELSE 0]
ReentryAllowance == [a \in Users |-> ReentryBalance[a]]

InitReentry ==
    /\ Deployed
    /\ balances = ReentryBalance
    /\ allowance = ReentryAllowance

\* the call keeps within the pots and attempts of one run
WithinReentryBounds(call) ==
    /\ call.op = "createPot" => nextPotId < ReentryPots
    /\ call.op = "attemptPot" => nextAttemptId < ReentryAttempts

NextReentry ==
    \/ InitializeWith("bob")
    \/ \E call \in GuardedCalls : WithinReentryBounds(call) /\ Enter(call)
    \/ \E call \in GuardedCalls : Reenter(call, MaxReentries)
    \/ Return
    \/ Revert
    \/ Tick

SpecReentry == InitReentry /\ [][NextReentry]_vars


\* Time that keeps advancing: alice creates pots whose expiry lies within
\* LiveTime, bob attempts them and resolves the attempts; the clock goes
\* on to LiveTime, and an expirePot that would go through is called
\* sooner or later.
LiveBalance == [a \in Accounts |->
    CASE a = "alice" -> LivePots * (MIN_FEE + 1)
      [] a = "bob" -> LiveAttempts * (MIN_FEE + 1)
      [] OTHER -> 0]
LiveAllowance == [a \in Users |-> LiveBalance[a]]

InitLive ==
    /\ Deployed
    /\ balances = LiveBalance
    /\ allowance = LiveAllowance

CreatePotWithin(limit, cap) ==
    \E c \in {"alice"}, d \in Durations :
        /\ now + d <= limit
        /\ nextPotId < cap
        /\ createPot(c, MIN_FEE + 1, d, MIN_FEE + 1, OneFa)
        /\ UNCHANGED <<guard, custodyAllowance>>

\* an expirePot of pot p that goes through
ExpirePotOk(p) == \E c \in Users :
    /\ expirePotErr(p) = "ok"
    /\ expirePot(c, p)
    /\ UNCHANGED <<guard, custodyAllowance>>

NextLive ==
    \/ InitializeWith("bob")
    \/ CreatePotWithin(LiveTime, LivePots)
    \/ AttemptPot({"bob"}, 0..(LivePots - 1), {0}, LiveAttempts)
    \/ AttemptCompleted(0..LiveAttempts)
    \/ ExpirePot
    \/ TickTo(LiveTime)

FairLive ==
    /\ WF_vars(TickTo(LiveTime))
    /\ \A p \in 0..(LivePots - 1) : WF_vars(ExpirePotOk(p))

SpecLive == InitLive /\ [][NextLive]_vars /\ FairLive

\* Initialization with every argument: anyone calls initialize with any
\* token and verifier, the zero address included, at any time; the
\* verifier is never rotated, so it is written by initialize alone.
NextInit ==
    \/ Initialize
    \/ CreatePot(Users, Amounts, Fees, Durations, MaxPots)
    \/ ExpirePot
    \/ Tick

SpecInit == Init /\ [][NextInit]_vars

\* Rotation of the verifier: the owner initializes with bob as verifier;
\* alice creates pots, which are attempted while bob is the verifier;
\* anyone calls updateVerifier with any argument at any time, and anyone
\* calls attemptCompleted.
AttemptPotUnder(v, cap) ==
    /\ verifier = v
    /\ AttemptPot(Users, PotIds, {0}, cap)

NextRotate ==
    \/ InitializeWith("bob")
    \/ UpdateVerifier
    \/ CreatePot({"alice"}, Amounts, Fees, {3 * TickStep}, RotatePots)
    \/ AttemptPotUnder("bob", RotateAttempts)
    \/ AttemptCompleted(0..RotateAttempts)
    \/ Tick

SpecRotate == Init /\ [][NextRotate]_vars

\* Several attempts of one hunter: alice creates pots, alice and bob, who
\* can pay for every attempt, attempt them again and again; bob resolves
\* any attempt either way, pots expire and the clock moves.
NextLog ==
    \/ InitializeWith("bob")
    \/ CreatePot({"alice"}, Amounts, {MIN_FEE + 1}, Durations, LogPots)
    \/ AttemptPot({"alice", "bob"}, 0..(LogPots - 1), {0}, LogAttempts)
    \/ AttemptCompleted(0..LogAttempts)
    \/ ExpirePot
    \/ Tick

SpecLog == InitDifficulty /\ [][NextLog]_vars

\* The suite's scenario, in whole tokens: the creator alice holds two
\* stakes of 1000 and the hunter bob ten entry fees of 100, both approved
\* to the contract (setUp); the owner is the verifier.  alice creates a
\* pot of 1000 for a day with fee 100, bob attempts it, anyone calls
\* attemptCompleted with either status, and the clock moves.
\* POT_AMOUNT and POT_FEE count whole tokens (1000 * 10 ** 18 and
\* 100 * 10 ** 18 of the smallest unit in the suite): both are multiples
\* of 100, so no share is rounded at either scale
POT_AMOUNT == 1000
POT_FEE == 100
POT_DURATION == 86400

ScenarioBalance == [a \in Accounts |->
    CASE a = "alice" -> POT_AMOUNT * 2
      [] a = "bob" -> POT_FEE * 10
      [] OTHER -> 0]
ScenarioAllowance == [a \in Users |-> ScenarioBalance[a]]

InitScenario ==
    /\ Deployed
    /\ balances = ScenarioBalance
    /\ allowance = ScenarioAllowance

NextScenario ==
    \/ InitializeWith(Owner)
    \/ CreatePot({"alice"}, {POT_AMOUNT}, {POT_FEE}, {POT_DURATION},
                 ScenarioPots)
    \/ AttemptPot({"bob"}, {0}, {0}, ScenarioAttempts)
    \/ AttemptCompleted(0..ScenarioAttempts)
    \/ Tick

SpecScenario == InitScenario /\ [][NextScenario]_vars

\* The proxy functions next to the pots: alice creates a pot, bob attempts
\* it and resolves the attempt, anyone expires it, and every account
\* calls approve, transfer and transferFrom of the contract.
ProxyAmounts == {0, MIN_FEE + 1}

ProxyBalance == [a \in Accounts |->
    CASE a = "alice" -> ProxyPots * (MIN_FEE + 1)
      [] a = "bob" -> ProxyAttempts * (MIN_FEE + 1)
      [] OTHER -> 0]
ProxyAllowance == [a \in Users |-> ProxyBalance[a]]

InitProxy ==
    /\ Deployed
    /\ balances = ProxyBalance
    /\ allowance = ProxyAllowance

Approve == \E c \in Users, s \in Accounts, n \in ProxyAmounts :
    approve(c, s, n) /\ UNCHANGED guard

Transfer == \E c \in Users, to \in Users, n \in ProxyAmounts :
    transfer(c, to, n) /\ UNCHANGED <<guard, custodyAllowance>>

TransferFrom == \E c \in Users, from \in Users, to \in Users,
                   n \in ProxyAmounts :
    transferFrom(c, from, to, n) /\ UNCHANGED <<guard, custodyAllowance>>

TransferFromCustody == \E c \in Users, to \in Users, n \in ProxyAmounts :
    transferFromCustody(c, to, n) /\ UNCHANGED guard

WithdrawEth == \E c \in Users, n \in EthValues :
    withdrawEth(c, n) /\ UNCHANGED <<guard, custodyAllowance>>

EmergencyWithdrawEth == \E c \in Users :
    emergencyWithdrawEth(c) /\ UNCHANGED <<guard, custodyAllowance>>

NextProxy ==
    \/ InitializeWith("bob")
    \/ CreatePot({"alice"}, Amounts, {MIN_FEE + 1}, Durations, ProxyPots)
    \/ AttemptPot({"bob"}, 0..(ProxyPots - 1), {0}, ProxyAttempts)
    \/ AttemptCompleted(0..ProxyAttempts)
    \/ ExpirePot
    \/ Approve
    \/ Transfer
    \/ TransferFrom
    \/ TransferFromCustody
    \/ WithdrawEth
    \/ EmergencyWithdrawEth
    \/ Tick

SpecProxy == InitProxy /\ [][NextProxy]_vars

\* ====================================================== checked claims
\* the attempt ids that calls of Spec name: the stored ones and one more
CalledIds == 0..MaxAttempts

\* the ids that createPot and attemptPot have handed out
Created == 0..(nextPotId - 1)
Stored == 0..(nextAttemptId - 1)

RECURSIVE SetSum(_, _)
SetSum(f, S) ==
    IF S = {} THEN 0
    ELSE LET x == CHOOSE y \in S : TRUE IN f[x] + SetSum(f, S \ {x})

HasEvent(type, id) ==
    \E i \in 1..Len(events) : events[i].type = type /\ events[i].id = id

LastEvent == IF events = <<>> THEN [type |-> "none", id |-> 0,
                                    who |-> ZeroAddr, timestamp |-> 0]
             ELSE events[Len(events)]

\* what custody holds on account of pot p: the stake while the pot is
\* active, 40% of it (the stake less the floor of 60%) once it is solved
HeldForPot(p) ==
    IF pots[p].isActive THEN pots[p].totalAmount
    ELSE IF HasEvent("PotSolved", p)
         THEN pots[p].totalAmount - (pots[p].totalAmount * 60) \div 100
    ELSE 0

\* what custody kept of the entry fee of attempt a: the fee less the floor
\* of its half
KeptOfAttempt(a) ==
    LET f == pots[attempts[a].potId].fee IN f - (f * 50) \div 100

ActiveStakes ==
    SetSum([p \in Created |->
        IF pots[p].isActive THEN pots[p].totalAmount ELSE 0], Created)

\* C1: the custody balance is the sum of the stakes of the active pots,
\* plus the stake less the hunter share of every solved pot, plus the
\* platform share of every attempt; so it is never below the active stakes.
C1_CustodyBalance ==
    /\ balances[Escrow] =
          SetSum([p \in Created |-> HeldForPot(p)], Created)
        + SetSum([a \in Stored |-> KeptOfAttempt(a)], Stored)
    /\ balances[Escrow] >= ActiveStakes

\* an active pot beside a solved pot
C1_Witness ==
    /\ \E p \in Created : pots[p].isActive
    /\ \E p \in Created : HasEvent("PotSolved", p)

\* C2: a pot that is inactive stays inactive in every later state.
C2_InactiveIsTerminal ==
    [][\A p \in Created : ~pots[p].isActive => ~pots'[p].isActive]_vars

\* a pot was closed and the ledger went on: another pot was created after it
C2_Witness ==
    \E p \in Created :
        /\ ~pots[p].isActive
        /\ LastEvent.type = "PotCreated"
        /\ LastEvent.id > p

\* C3 as stated: after attemptCompleted(id, true) went through, a second
\* attemptCompleted on the same id by the verifier ends in AttemptCompleted.
C3_SecondResolutionSaysCompleted ==
    \A a \in Stored : outcome[a] = "succeeded" =>
        \A st \in BOOLEAN :
            attemptCompletedErr(verifier, a, st) = "AttemptCompleted"

\* C3 as amended: after attemptCompleted(id, true) went through, a second
\* attemptCompleted on the same id by the verifier, with either status,
\* fails, and the error is PotNotActive: the pot is inactive by then and
\* that check comes first.
C3_SecondResolutionFails ==
    \A a \in Stored : outcome[a] = "succeeded" =>
        \A st \in BOOLEAN :
            attemptCompletedErr(verifier, a, st) = "PotNotActive"

\* an attempt resolved as succeeded, with both time windows still open
C3_Witness ==
    \E a \in Stored :
        /\ outcome[a] = "succeeded"
        /\ now < attempts[a].expiresAt
        /\ now < pots[attempts[a].potId].expiresAt
        /\ verifier # ZeroAddr

\* C4: attemptCompleted by anyone but the verifier ends in Unauthorized, in
\* every state and for every attempt id and status, and no such call
\* changes a pot, an attempt or a balance.
C4_OnlyVerifierResolves ==
    /\ [](\A c \in Users, a \in CalledIds, st \in BOOLEAN :
             c # verifier => attemptCompletedErr(c, a, st) = "Unauthorized")
    /\ [][\/ UNCHANGED <<pots, attempts, balances>>
          \/ \A c \in Users, a \in CalledIds, st \in BOOLEAN :
                c # verifier => ~attemptCompleted(c, a, st)]_vars

\* a pending attempt that the verifier could resolve right now, while some
\* other account is not the verifier
C4_Witness ==
    \E a \in Stored, c \in Users :
        /\ c # verifier
        /\ attemptCompletedErr(verifier, a, TRUE) = "ok"

\* C5: isCompleted never goes back to false, and it goes from false to
\* true only in an attemptCompleted call of the verifier that goes through,
\* at a time strictly before the attempt's and the pot's expiresAt.
C5_CompletedOnceInTime ==
    [][\A a \in CalledIds :
          /\ attempts[a].isCompleted => attempts'[a].isCompleted
          /\ (~attempts[a].isCompleted /\ attempts'[a].isCompleted) =>
                /\ a \in Stored
                /\ now < attempts[a].expiresAt
                /\ now < pots[attempts[a].potId].expiresAt
                /\ \E st \in BOOLEAN :
                      /\ attemptCompletedErr(verifier, a, st) = "ok"
                      /\ attemptCompleted(verifier, a, st)]_vars

\* an attempt completed in time whose window has lapsed since
C5_Witness ==
    \E a \in Stored :
        /\ attempts[a].isCompleted
        /\ now >= attempts[a].expiresAt

\* the balances after `share` went from custody to `hunter`
PaidFromCustody(share, hunter) ==
    [b \in Accounts |->
        balances[b] - (IF b = Escrow THEN share ELSE 0)
                    + (IF b = hunter THEN share ELSE 0)]

\* what an attemptCompleted(a, true) that goes through does, whoever calls
SolvedBy(a) ==
    LET p == attempts[a].potId
        share == (pots[p].totalAmount * 60) \div 100
    IN
    /\ attempts'[a].isCompleted
    /\ ~pots'[p].isActive
    /\ balances' = PaidFromCustody(share, attempts[a].hunter)

\* C6 as stated: an attemptCompleted(id, true) that goes through completes
\* the attempt, closes the pot, moves floor(totalAmount * 60 / 100) from
\* custody to the attempt's hunter, and leaves the creator's balance alone.
C6_PayoutLeavesCreatorAlone ==
    [][\A c \in Users, a \in CalledIds :
          (attemptCompletedErr(c, a, TRUE) = "ok"
              /\ attemptCompleted(c, a, TRUE)) =>
             /\ SolvedBy(a)
             /\ LET creator == pots[attempts[a].potId].creator IN
                balances'[creator] = balances[creator]]_vars

\* C6 as amended: an attemptCompleted(id, true) that goes through completes
\* the attempt, closes the pot and moves floor(totalAmount * 60 / 100) from
\* custody to the attempt's hunter and nothing else; the creator's balance
\* is unchanged unless the creator is that hunter.
C6_Payout ==
    [][attempts' = attempts \/ \A c \in Users, a \in CalledIds :
          (attemptCompletedErr(c, a, TRUE) = "ok"
              /\ attemptCompleted(c, a, TRUE)) =>
             /\ SolvedBy(a)
             /\ LET creator == pots[attempts[a].potId].creator IN
                creator # attempts[a].hunter =>
                    balances'[creator] = balances[creator]]_vars

\* a pot was just solved by a hunter who is not its creator, and 60% of its
\* stake is not a whole number
C6_Witness ==
    /\ LastEvent.type = "PotSolved"
    /\ LastEvent.who # pots[LastEvent.id].creator
    /\ (pots[LastEvent.id].totalAmount * 60) % 100 # 0

\* C7: an attemptCompleted(id, false) that goes through sets isCompleted of
\* that attempt, appends PotFailed and changes nothing else; right after
\* it, attemptPot on the same pot is refused to no one who can pay.
C7_FailedResolutionFrame ==
    [][attempts' = attempts \/ \A c \in Users, a \in CalledIds :
          (attemptCompletedErr(c, a, FALSE) = "ok"
              /\ attemptCompleted(c, a, FALSE)) =>
             /\ attempts' = [attempts EXCEPT ![a].isCompleted = TRUE]
             /\ events' = Append(events, [type |-> "PotFailed", id |-> a,
                    who |-> attempts[a].hunter, timestamp |-> now])
             /\ UNCHANGED <<balances, allowance, pots, potIds, nextPotId,
                            nextAttemptId, now>>
             /\ \A h \in Users :
                   (attemptPotErr(h, attempts[a].potId, 0, 0))'
                       \in {"ok", "TransferFailed"}]_vars

\* an attempt was marked failed and the same pot was attempted again
C7_Witness ==
    \E i, j \in 1..Len(events) :
        /\ i < j
        /\ events[i].type = "PotFailed"
        /\ events[j].type = "PotAttempted"
        /\ attempts[events[j].id].potId = attempts[events[i].id].potId

\* C8: once a pot is solved or expired, attemptPot on it ends in
\* PotNotActive for every caller and payment, and no such call changes
\* attemptsCount, nextAttemptId or a balance.
C8_ClosedPotRefusesAttempts ==
    /\ [](\A p \in Created :
             (HasEvent("PotSolved", p) \/ HasEvent("PotExpired", p)) =>
                \A h \in Users, v \in EthValues, q \in EthQuotes :
                   attemptPotErr(h, p, v, q) = "PotNotActive")
    /\ [][\/ UNCHANGED <<pots, nextAttemptId, balances>>
          \/ \A p \in Created :
                (HasEvent("PotSolved", p) \/ HasEvent("PotExpired", p)) =>
                   \A h \in Users, v \in EthValues, q \in EthQuotes :
                      ~attemptPot(h, p, v, q)]_vars

\* an expired pot and a solved pot whose time is not up
C8_Witness ==
    /\ \E p \in Created : HasEvent("PotExpired", p)
    /\ \E p \in Created :
          HasEvent("PotSolved", p) /\ now < pots[p].expiresAt

\* C9: an attemptPot that goes through on a pot with entry fee f takes f
\* from the hunter, gives floor(f * 50 / 100) to the pot's creator and the
\* rest of f to custody; no other balance changes.  (Every attemptPot that
\* goes through takes a fresh attempt id, so only the steps that move
\* nextAttemptId need looking at.)
C9_FeeSplit ==
    [][nextAttemptId' = nextAttemptId \/
       \A c \in Users, p \in PotIds, v \in EthValues, q \in EthQuotes :
          (attemptPotErr(c, p, v, q) = "ok" /\ attemptPot(c, p, v, q)) =>
             LET f == pots[p].fee
                 creatorShare == (f * 50) \div 100
                 platformShare == f - creatorShare
             IN
             balances' = [b \in Accounts |->
                 balances[b] - (IF b = c THEN f ELSE 0)
                     + (IF b = pots[p].creator THEN creatorShare ELSE 0)
                     + (IF b = Escrow THEN platformShare ELSE 0)]]_vars

\* a pot with an odd fee below its stake was attempted by its creator and
\* by someone else
C9_Witness ==
    \E a, b \in Stored :
        /\ attempts[a].potId = attempts[b].potId
        /\ pots[attempts[a].potId].fee % 2 = 1
        /\ pots[attempts[a].potId].fee < pots[attempts[a].potId].totalAmount
        /\ attempts[a].hunter # pots[attempts[a].potId].creator
        /\ attempts[b].hunter = pots[attempts[b].potId].creator

\* the number of attempts stored on the pot of attempt a before a
EarlierOnSamePot(a) ==
    Cardinality({b \in Stored :
        b < a /\ attempts[b].potId = attempts[a].potId})

\* C10: the k-th attempt on a pot, counted from 0, has difficulty
\* (k mod 9) + 3, a value in 3..11, whatever happened on other pots,
\* whoever attempted and however earlier attempts were resolved.
C10_Difficulty ==
    \A a \in Stored :
        /\ attempts[a].difficulty = (EarlierOnSamePot(a) % 9) + 3
        /\ attempts[a].difficulty \in 3..11

\* the tenth attempt on a pot, after attempts of both hunters on it, an
\* attempt on another pot and a resolution
C10_Witness ==
    \E a \in Stored :
        /\ EarlierOnSamePot(a) = 9
        /\ \E b \in Stored : attempts[b].potId # attempts[a].potId
        /\ \E b \in Stored : /\ b < a
                             /\ attempts[b].potId = attempts[a].potId
                             /\ attempts[b].hunter # attempts[a].hunter
        /\ outcome[0] = "failed"

\* C11: createPot ends in InvalidFee exactly when fee < MIN_FEE or
\* fee > amount, so fee = MIN_FEE and fee = amount pass the check and
\* fee = MIN_FEE - 1 does not; a call that ends so stores no pot, leaves
\* nextPotId and potIds alone and moves no tokens.
C11_InvalidFee ==
    /\ [](\A c \in Users, a \in WideAmounts, f \in WideFees :
             (createPotErr(c, a, f) = "InvalidFee") <=> (f < MIN_FEE \/ f > a))
    /\ [][\/ UNCHANGED <<pots, nextPotId, potIds, balances, allowance>>
          \/ \A c \in Users, a \in WideAmounts, f \in WideFees :
                (f < MIN_FEE \/ f > a) =>
                    ~createPot(c, a, 3 * TickStep, f, OneFa)]_vars

\* a pot was created with its fee on both boundaries: MIN_FEE and its stake
C11_Witness ==
    \E p \in Created :
        /\ pots[p].isActive
        /\ pots[p].fee = MIN_FEE
        /\ pots[p].fee = pots[p].totalAmount

\* what a createPot that goes through does to the pots, the id counter and
\* the token ledger
CreatedAs(c, a, d, f) ==
    LET id == nextPotId IN
    /\ nextPotId' = id + 1
    /\ potIds' = Append(potIds, id)
    /\ pots' = [pots EXCEPT ![id] =
            [id |-> id, creator |-> c, totalAmount |-> a, fee |-> f,
             createdAt |-> now, expiresAt |-> now + d, isActive |-> TRUE,
             attemptsCount |-> 0, oneFaAddress |-> OneFa]]
    /\ balances' = [b \in Accounts |->
            balances[b] - (IF b = c THEN a ELSE 0)
                        + (IF b = Escrow THEN a ELSE 0)]
    /\ allowance' = [allowance EXCEPT ![c] = @ - a]
    /\ LastEvent' = [type |-> "PotCreated", id |-> id, who |-> c,
                     timestamp |-> now]

\* C12: the ids handed out are 0, 1, 2, ... in call order, without gap or
\* reuse; the id counter moves only in a createPot that goes through, and
\* that call stores, under the counter's old value, a pot with the
\* caller as creator, isActive, attemptsCount 0, createdAt = now and
\* expiresAt = now + durationSeconds, and moves the stake from the caller
\* to custody.
C12_CreatePotEffect ==
    /\ [](/\ potIds = [i \in 1..nextPotId |-> i - 1]
          /\ \A p \in Created : pots[p].id = p)
    /\ [][\/ nextPotId' = nextPotId
          \/ \E c \in Users, a \in Amounts, d \in Durations, f \in Fees :
                /\ createPotErr(c, a, f) = "ok"
                /\ CreatedAs(c, a, d, f)]_vars

\* two pots of two creators, the second created after the clock moved
C12_Witness ==
    /\ nextPotId = 2
    /\ pots[0].creator # pots[1].creator
    /\ pots[1].createdAt > pots[0].createdAt
    /\ pots[1].expiresAt > pots[1].createdAt

\* C13 as stated: every pot that createPot has stored has
\* MIN_FEE <= fee <= totalAmount and expiresAt > createdAt, whatever the
\* arguments were, durationSeconds = 0 included.
C13_StoredPotsWellFormed ==
    \A p \in Created :
        /\ MIN_FEE <= pots[p].fee
        /\ pots[p].fee <= pots[p].totalAmount
        /\ pots[p].expiresAt > pots[p].createdAt

C15_ExpireRefused ==
    /\ [](\A p \in PotIds :
             /\ ~pots[p].isActive => expirePotErr(p) = "PotNotActive"
             /\ (pots[p].isActive /\ now < pots[p].expiresAt) =>
                    expirePotErr(p) = "NotExpired")
    /\ [][\/ UNCHANGED <<pots, balances>>
          \/ \A c \in Users, p \in PotIds :
                (~pots[p].isActive \/ now < pots[p].expiresAt) =>
                    ~expirePot(c, p)]_vars

\* an expired pot, refunded once, beside an active pot whose time is not up
C15_Witness ==
    /\ \E p \in Created : HasEvent("PotExpired", p) /\ ~pots[p].isActive
    /\ \E p \in Created : pots[p].isActive /\ now < pots[p].expiresAt
    /\ nextPotId \in PotIds /\ pots[nextPotId] = ZeroPot

\* C16: attemptPot ends in PotNotActive on a pot that is inactive or was
\* never created, and in ExpiredPot on an active pot with
\* now >= expiresAt, now = expiresAt included; it goes through, and an
\* attempt id is handed out, only on an active pot with now < expiresAt.
C16_AttemptRefused ==
    /\ [](\A h \in Users, p \in PotIds, v \in EthValues, q \in EthQuotes :
             /\ ~pots[p].isActive =>
                    attemptPotErr(h, p, v, q) = "PotNotActive"
             /\ (pots[p].isActive /\ now >= pots[p].expiresAt) =>
                    attemptPotErr(h, p, v, q) = "ExpiredPot"
             /\ attemptPotErr(h, p, v, q) = "ok" =>
                    (pots[p].isActive /\ now < pots[p].expiresAt))
    /\ [][\/ nextAttemptId' = nextAttemptId
          \/ \E h \in Users, p \in Created :
                /\ pots[p].isActive
                /\ now < pots[p].expiresAt
                /\ attemptPot(h, p, 0, 0)]_vars

\* an active pot exactly at its expiresAt, attempted before that
C16_Witness ==
    \E p \in Created :
        /\ pots[p].isActive
        /\ now = pots[p].expiresAt
        /\ pots[p].attemptsCount > 0

\* C17: called by the verifier, attemptCompleted reports the first
\* precondition that fails, in the order pot active (PotNotActive), pot
\* unexpired (ExpiredPot), attempt unexpired (AttemptExpired), attempt not
\* completed (AttemptCompleted), for every attempt id and status.
C17_ResolutionCheckOrder ==
    \A a \in CalledIds, st \in BOOLEAN :
        LET att == attempts[a]
            pot == pots[att.potId]
            err == attemptCompletedErr(verifier, a, st)
        IN
        /\ ~pot.isActive => err = "PotNotActive"
        /\ (pot.isActive /\ now >= pot.expiresAt) => err = "ExpiredPot"
        /\ (pot.isActive /\ now < pot.expiresAt /\ now >= att.expiresAt) =>
              err = "AttemptExpired"
        /\ (pot.isActive /\ now < pot.expiresAt /\ now < att.expiresAt
                /\ att.isCompleted) =>
              err = "AttemptCompleted"

\* an attempt already marked failed whose window has lapsed, on a pot that
\* is still active and unexpired
C17_Witness ==
    \E a \in Stored :
        /\ outcome[a] = "failed"
        /\ now >= attempts[a].expiresAt
        /\ pots[attempts[a].potId].isActive
        /\ now < pots[attempts[a].potId].expiresAt
        /\ verifier # ZeroAddr

\* the closing events of pot p
ClosingEvents(p) ==
    {i \in 1..Len(events) :
        /\ events[i].id = p
        /\ events[i].type \in {"PotSolved", "PotExpired"}}

\* C18: a pot is closed at most once, by a solution or by its expiry and
\* never by both, and stays closed; custody pays tokens out only in a
\* step that closes one active pot, and then floor(60%) of that pot's
\* stake when it is solved, or the whole stake when it expires.
C18_ClosedOnce ==
    /\ [](\A p \in Created :
             /\ Cardinality(ClosingEvents(p)) <= 1
             /\ pots[p].isActive <=> ClosingEvents(p) = {})
    /\ [][/\ \A p \in Created : ~pots[p].isActive => ~pots'[p].isActive
          /\ \/ balances'[Escrow] >= balances[Escrow]
             \/ \E p \in Created :
                   LET paid == balances[Escrow] - balances'[Escrow] IN
                   /\ pots[p].isActive
                   /\ ~pots'[p].isActive
                   /\ LastEvent'.id = p
                   /\ \/ /\ LastEvent'.type = "PotSolved"
                         /\ paid = (pots[p].totalAmount * 60) \div 100
                      \/ /\ LastEvent'.type = "PotExpired"
                         /\ paid = pots[p].totalAmount]_vars

\* a solved pot whose time has run out since, beside an expired pot
C18_Witness ==
    /\ \E p \in Created :
          HasEvent("PotSolved", p) /\ now >= pots[p].expiresAt
    /\ \E p \in Created : HasEvent("PotExpired", p)

\* caller c cannot pay the stake a: balance or allowance is short
CannotPayStake(c, a) == balances[c] < a \/ allowance[c] < a

\* hunter h can pay the creator share of pot p
CanPayCreatorShare(h, p) ==
    LET cs == (pots[p].fee * 50) \div 100 IN
    balances[h] >= cs /\ allowance[h] >= cs

\* hunter h cannot pay the platform share of pot p once the creator share
\* is paid
CannotPayPlatformShare(h, p) ==
    LET cs == (pots[p].fee * 50) \div 100
        ps == pots[p].fee - cs
        left == balances[h] - cs + (IF pots[p].creator = h THEN cs ELSE 0)
    IN
    left < ps \/ allowance[h] - cs < ps

\* C20: a createPot whose stake transfer fails, and an attemptPot one of
\* whose two transfers fails, fails as a whole: no pot or attempt is
\* stored, nextPotId, nextAttemptId, potIds and attemptsCount stay, and no
\* balance or allowance moves, the creator share included when only the
\* platform share cannot be paid.
C20_FailedTransferLeavesNoTrace ==
    /\ [](/\ \A c \in Users, a \in Amounts, f \in Fees :
                CannotPayStake(c, a) => createPotErr(c, a, f) # "ok"
          /\ \A h \in Users, p \in PotIds :
                (~CanPayCreatorShare(h, p) \/ CannotPayPlatformShare(h, p))
                    => attemptPotErr(h, p, 0, 0) # "ok")
    /\ [][\/ UNCHANGED <<pots, attempts, nextPotId, nextAttemptId, potIds,
                          balances, allowance, events>>
          \/ /\ \A c \in Users, a \in Amounts, d \in Durations, f \in Fees :
                   CannotPayStake(c, a) => ~createPot(c, a, d, f, OneFa)
             /\ \A h \in Users, p \in PotIds :
                   (~CanPayCreatorShare(h, p) \/ CannotPayPlatformShare(h, p))
                       => ~attemptPot(h, p, 0, 0)]_vars

\* a hunter who has attempted before can pay the creator share of an open
\* pot but not the platform share after it, and someone cannot pay a stake
C20_Witness ==
    /\ \E h \in Users, p \in Created :
          /\ pots[p].isActive
          /\ now < pots[p].expiresAt
          /\ CanPayCreatorShare(h, p)
          /\ CannotPayPlatformShare(h, p)
          /\ \E a \in Stored : attempts[a].hunter = h
    /\ \E c \in Users : balances[c] >= MIN_FEE + 1 /\ CannotPayStake(c, MIN_FEE + 1)

\* C19: while a guarded call waits in a call of the token, the guard is
\* taken, every guarded function called from inside is refused and
\* nothing in the contract or the token ledger changes; the outer call
\* then either goes on as it would have from the state it started in, or
\* reverts as a whole; and the guard is free again whenever no guarded
\* call is running.
C19_NoReentry ==
    /\ [](/\ entered <=> frame # NoFrame
          /\ frame # NoFrame =>
                /\ ledger = frame.saved
                /\ nonReentrantErr = "ReentrancyGuardReentrantCall")
    /\ [][/\ (frame # NoFrame /\ frame' # NoFrame) =>
                UNCHANGED <<now, ledger, entered>>
          /\ (frame # NoFrame /\ frame' = NoFrame) =>
                /\ ~entered'
                /\ RunCall(frame.call) \/ UNCHANGED <<now, ledger>>]_vars

\* the token has called back twice from inside an attemptCompleted, after
\* earlier guarded calls ran to their end
C19_Witness ==
    /\ frame.call.op = "attemptCompleted"
    /\ frame.refused = 2
    /\ entered
    /\ nextAttemptId > 0

\* C21: a createPot, attemptPot, attemptCompleted or expirePot that ends in
\* an error changes no pot, no attempt, neither id counter, not potIds, no
\* balance or allowance and not the event log.
C21_FailedCallChangesNothing ==
    [][\/ UNCHANGED <<pots, attempts, nextPotId, nextAttemptId, potIds,
                      balances, allowance, events>>
       \/ /\ \A c \in Users, a \in Amounts, d \in Durations, f \in Fees :
                createPotErr(c, a, f) # "ok" => ~createPot(c, a, d, f, OneFa)
          /\ \A h \in Users, p \in PotIds, v \in EthValues, q \in EthQuotes :
                attemptPotErr(h, p, v, q) # "ok" => ~attemptPot(h, p, v, q)
          /\ \A c \in Users, a \in CalledIds, st \in BOOLEAN :
                attemptCompletedErr(c, a, st) # "ok" =>
                    ~attemptCompleted(c, a, st)
          /\ \A c \in Users, p \in PotIds :
                expirePotErr(p) # "ok" => ~expirePot(c, p)]_vars

\* after a pot was created and attempted, each of the four functions has
\* a call that fails: a fee below MIN_FEE, an ETH payment, a resolution
\* by an account that is not the verifier, an expiry before its time
C21_Witness ==
    /\ \E p \in Created :
          /\ pots[p].attemptsCount > 0
          /\ expirePotErr(p) = "NotExpired"
          /\ \E h \in Users : attemptPotErr(h, p, 1, 1) = "PythNotConfigured"
    /\ \E c \in Users : createPotErr(c, MIN_FEE + 1, MIN_FEE - 1) = "InvalidFee"
    /\ \E c \in Users, a \in Stored :
          attemptCompletedErr(c, a, TRUE) = "Unauthorized"

Lapsed == {a \in Stored : ~attempts[a].isCompleted /\ now >= attempts[a].expiresAt}

\* the step pays hunter h for something other than a lapsed attempt: a
\* creator share or the refund of a pot that h created, or the hunter
\* share for an attempt of h that was resolved within its window
PaidOtherwise(h) ==
    /\ events' # events
    /\ LET e == LastEvent' IN
       \/ /\ e.type = "PotAttempted"
          /\ pots[attempts'[e.id].potId].creator = h
       \/ /\ e.type = "PotExpired"
          /\ pots[e.id].creator = h
       \/ /\ e.type = "PotSolved"
          /\ \E b \in Stored \ Lapsed :
                /\ attempts[b].hunter = h
                /\ attempts[b].potId = e.id
                /\ ~attempts[b].isCompleted
                /\ attempts'[b].isCompleted

C24_InitializeOnce ==
    /\ [](/\ verifier # ZeroAddr =>
                \A c \in Users : initializeErr(c) # "ok"
          /\ \A c \in Users \ {Owner} : initializeErr(c) # "ok")
    /\ [][verifier # ZeroAddr => UNCHANGED <<underlying, verifier>>]_vars

\* the addresses that attemptCompleted does not refuse as Unauthorized
Authorised(a, st) ==
    {c \in Users \cup {ZeroAddr} :
        attemptCompletedErr(c, a, st) # "Unauthorized"}

\* C25: in every state the callers that attemptCompleted lets past its
\* first check are the one address stored as verifier; updateVerifier is
\* refused to everyone but the owner, and to the owner with the zero
\* address; the verifier changes only in a call of the owner; and in the
\* state after a rotation the previous verifier is refused with
\* Unauthorized for every attempt, while every resolution the previous
\* verifier could have made goes through for the new one.
C25_OneVerifier ==
    /\ [](/\ \A a \in CalledIds, st \in BOOLEAN : Authorised(a, st) = {verifier}
          /\ \A c \in Users, v \in VerifierArgs :
                updateVerifierErr(c, v) = "ok" <=> (c = Owner /\ v # ZeroAddr))
    /\ [][\/ verifier' = verifier
          \/ \E v \in VerifierArgs :
                /\ updateVerifierErr(Owner, v) = "ok"
                /\ updateVerifier(Owner, v)
          \/ \E t \in TokenArgs, v \in VerifierArgs :
                /\ initializeErr(Owner) = "ok"
                /\ initialize(Owner, t, v)]_vars
    /\ [][\A old, new \in Users :
             (old = verifier /\ new = verifier' /\ old # new) =>
                \A a \in CalledIds, st \in BOOLEAN :
                   /\ (attemptCompletedErr(old, a, st))' = "Unauthorized"
                   /\ attemptCompletedErr(old, a, st) = "ok" =>
                         (attemptCompletedErr(new, a, st))' = "ok"]_vars

\* alice has replaced bob as verifier and can resolve a pending attempt,
\* made while bob was the verifier, that bob is now refused
C25_Witness ==
    /\ verifier = "alice"
    /\ \E a \in Stored :
          /\ attemptCompletedErr("alice", a, TRUE) = "ok"
          /\ attemptCompletedErr("bob", a, TRUE) = "Unauthorized"
    /\ \E a \in Stored : outcome[a] = "failed"

\* what the event log says of pot p: it is active when it was created and
\* neither solved nor expired, and it was attempted as often as there are
\* PotAttempted events that name it
LoggedActive(p) ==
    /\ HasEvent("PotCreated", p)
    /\ ~HasEvent("PotSolved", p)
    /\ ~HasEvent("PotExpired", p)

LoggedAttempts(p) ==
    Cardinality({i \in 1..Len(events) :
        events[i].type = "PotAttempted" /\ events[i].pot = p})

\* C26 as stated: the event log determines isActive and attemptsCount of
\* every pot and isCompleted of every attempt: the pots are as the log
\* says, and two resolutions that go through and emit the same event
\* complete the same attempt, also when one hunter has several pending
\* attempts on the pot.
C26_LogDeterminesState ==
    /\ \A p \in Created :
          /\ pots[p].isActive = LoggedActive(p)
          /\ pots[p].attemptsCount = LoggedAttempts(p)
    /\ \A a, b \in Stored : \A sa, sb \in BOOLEAN :
          (/\ attemptCompletedErr(verifier, a, sa) = "ok"
           /\ attemptCompletedErr(verifier, b, sb) = "ok"
           /\ resolutionEvent(a, sa) = resolutionEvent(b, sb))
            => [attempts EXCEPT ![a].isCompleted = TRUE]
                   = [attempts EXCEPT ![b].isCompleted = TRUE]

\* all tokens held by the creators, the hunters and custody
TotalTokens(bal) == SetSum(bal, Accounts)

\* C27: the tokens held by the accounts and custody together are as many
\* in every state as before the first call, no balance is negative, and
\* no step changes their sum.
C27_TokensConserved ==
    /\ [](/\ TotalTokens(balances) = TotalTokens(InitialBalance)
          /\ \A a \in Accounts : balances[a] >= 0)
    /\ [][\/ balances' = balances
          \/ TotalTokens(balances') = TotalTokens(balances)]_vars

\* tokens went into custody and out of it both ways: one pot was solved,
\* another expired, and custody keeps what is left of the solved one
C27_Witness ==
    /\ \E p \in Created : HasEvent("PotSolved", p)
    /\ \E p \in Created : HasEvent("PotExpired", p)
    /\ balances[Escrow] > 0
    /\ balances # InitialBalance

\* the ids of seq, as a set
Listed(seq) == {seq[i] : i \in 1..Len(seq)}

IsActivePot(p) == pots[p].isActive

\* C28: getPots is the sequence 0, 1, ..., nextPotId - 1; getActivePots
\* is the subsequence of getPots of the pots with isActive, in the same
\* order; a pot that was solved or expired is listed by getPots and not
\* by getActivePots.
C28_PotViews ==
    /\ getPots = [i \in 1..nextPotId |-> i - 1]
    /\ getActivePots = SelectSeq(getPots, IsActivePot)
    /\ \A p \in Created :
          (HasEvent("PotSolved", p) \/ HasEvent("PotExpired", p)) =>
              /\ p \in Listed(getPots)
              /\ p \notin Listed(getActivePots)

\* the first pot is closed and the second is active, after both were
\* active together
C28_Witness ==
    /\ nextPotId = 2
    /\ ~pots[0].isActive
    /\ pots[1].isActive
    /\ \E i, j \in 1..Len(events) :
          /\ i < j
          /\ events[i].type = "PotCreated" /\ events[i].id = 1
          /\ events[j].type \in {"PotSolved", "PotExpired"}
          /\ events[j].id = 0

\* the types of the events so far, and the scenario's
EventTypes == [i \in 1..Len(events) |-> events[i].type]

ScenarioTypes ==
    <<"PotCreated", "PotAttempted", "PotFailed", "PotAttempted", "PotSolved">>

\* the first n events of the scenario have happened and nothing else
After(n) == EventTypes = SubSeq(ScenarioTypes, 1, n)

\* C29: in the scenario (C = alice creates a pot of 1000 with fee 100, H =
\* bob attempts, the attempt is marked failed, bob attempts again, the
\* attempt is marked succeeded), the first attempt has difficulty 3 and
\* gives 50 to C and 50 to custody; after the failure the pot is active
\* with attemptsCount 1; the second attempt has difficulty 4 and the same
\* split; at the end the pot is inactive with attemptsCount 2, H holds
\* its initial balance - 200 + 600, C its balance after creation + 100,
\* and custody 400 + 100.
C29_Scenario ==
    LET C0 == ScenarioBalance["alice"]
        H0 == ScenarioBalance["bob"]
    IN
    /\ After(1) =>
          /\ balances["alice"] = C0 - 1000
          /\ balances[Escrow] = 1000
    /\ After(2) =>
          /\ attempts[0].difficulty = 3
          /\ balances["alice"] = C0 - 1000 + 50
          /\ balances[Escrow] = 1000 + 50
          /\ balances["bob"] = H0 - 100
    /\ After(3) =>
          /\ pots[0].isActive
          /\ pots[0].attemptsCount = 1
          /\ attempts[0].isCompleted
          /\ balances[Escrow] = 1000 + 50
    /\ After(4) =>
          /\ attempts[1].difficulty = 4
          /\ balances["alice"] = C0 - 1000 + 100
          /\ balances[Escrow] = 1000 + 100
          /\ balances["bob"] = H0 - 200
    /\ After(5) =>
          /\ ~pots[0].isActive
          /\ pots[0].attemptsCount = 2
          /\ attempts[1].isCompleted
          /\ balances["bob"] = H0 - 200 + 600
          /\ balances["alice"] = (C0 - 1000) + 100
          /\ balances[Escrow] = 400 + 100

\* the scenario has run to its end: the second attempt solved the pot
C29_Witness ==
    /\ After(5)
    /\ outcome[0] = "failed"
    /\ outcome[1] = "succeeded"

\* C30: tokens leave the custody balance only in a successful expirePot
\* or a successful attemptCompleted with status true, and no account ever
\* holds an allowance on the custody's tokens
C30_NoGrant == \A a \in Accounts : custodyAllowance[a] = 0

C30_OnlyPayouts ==
    [][\/ balances'[Escrow] >= balances[Escrow]
       \/ \E c \in Users, p \in PotIds :
            expirePotErr(p) = "ok" /\ expirePot(c, p)
       \/ \E c \in Users, a \in AttemptIds :
            /\ attemptCompletedErr(c, a, TRUE) = "ok"
            /\ attemptCompleted(c, a, TRUE)]_vars

C30_CustodyLeavesOnlyByPayout == [](C30_NoGrant) /\ C30_OnlyPayouts

\* C31: an account's tokens are debited through the contract only by a
\* call the account made itself: no call by a different account goes
\* through and takes tokens from it, and every debit that comes with an
\* event comes with the event of the account's own createPot or attemptPot
C31_NoDebitByOthers ==
    \A c \in Users, from \in Users, to \in Users, n \in ProxyAmounts :
        c = from \/ ~ENABLED (/\ transferFrom(c, from, to, n)
                  /\ balances'[from] < balances[from]
                  /\ UNCHANGED <<guard, custodyAllowance>>)

C31_DebitsOfPotCalls ==
    [][\A u \in Users :
        balances'[u] < balances[u] /\ events' # events =>
            /\ LastEvent'.type \in {"PotCreated", "PotAttempted"}
            /\ LastEvent'.who = u]_vars

C31_DebitedByOwnCallOnly == [](C31_NoDebitByOthers) /\ C31_DebitsOfPotCalls

\* C32: attemptCompleted on an attempt id that attemptPot never returned
\* fails for either status in every state, with AttemptExpired when the
\* verifier calls while pot 0 is active and unexpired; the call changes
\* nothing, so it neither closes pot 0 nor pays anyone
Unreturned == {a \in AttemptIds : a >= nextAttemptId}

C32_UnknownAttemptFails ==
    /\ [](\A c \in Users, a \in Unreturned, s \in BOOLEAN :
            /\ attemptCompletedErr(c, a, s)
                  \in {"Unauthorized", "PotNotActive", "ExpiredPot",
                       "AttemptExpired"}
            /\ attempts[a] = ZeroAttempt
            /\ c = verifier /\ pots[0].isActive /\ now < pots[0].expiresAt
                  => attemptCompletedErr(c, a, s) = "AttemptExpired")
    /\ [][UNCHANGED ledger
          \/ \A c \in Users, a \in CalledIds, s \in BOOLEAN :
                a < nextAttemptId \/ ~attemptCompleted(c, a, s)]_vars

C32_Witness ==
    /\ verifier \in Users
    /\ now > 0
    /\ pots[0].isActive /\ now < pots[0].expiresAt
    /\ nextAttemptId = 1
    /\ \A s \in BOOLEAN : attemptCompletedErr(verifier, 1, s) = "AttemptExpired"

\* C33: for an active pot the time checks split time in two: before
\* expiresAt expirePot ends in NotExpired and neither attemptPot nor
\* attemptCompleted ends in ExpiredPot; from expiresAt on expirePot passes
\* its time check and attemptPot and attemptCompleted end in ExpiredPot.
\* So every PotAttempted, PotFailed and PotSolved of a pot is stamped
\* before its expiresAt, and every PotExpired at or after it.
ActivePots == {p \in Created : pots[p].isActive}
AttemptsOn(p) == {a \in Stored : attempts[a].potId = p}

PassesExpiryCheck(err) == err # "ExpiredPot"
PassesNotExpiredCheck(err) == err # "NotExpired"

PotOfEvent(e) ==
    IF e.type \in {"PotCreated", "PotSolved", "PotExpired"} THEN e.id
    ELSE IF e.type = "PotAttempted" THEN e.pot
    ELSE attempts[e.id].potId

C33_TimeChecksPartition ==
    /\ \A p \in ActivePots :
        /\ \A h \in Users :
              PassesExpiryCheck(attemptPotErr(h, p, 0, 0))
                  <=> now < pots[p].expiresAt
        /\ \A a \in AttemptsOn(p), s \in BOOLEAN :
              verifier \in Users =>
                (PassesExpiryCheck(attemptCompletedErr(verifier, a, s))
                    <=> now < pots[p].expiresAt)
        /\ PassesNotExpiredCheck(expirePotErr(p)) <=> now >= pots[p].expiresAt
        /\ now = pots[p].expiresAt =>
              /\ expirePotErr(p) \in {"ok", "TransferFailed"}
              /\ \A h \in Users : attemptPotErr(h, p, 0, 0) = "ExpiredPot"
    /\ \A i \in 1..Len(events) :
        LET e == events[i]
            p == PotOfEvent(e)
        IN /\ e.type \in {"PotAttempted", "PotFailed", "PotSolved"}
                => e.timestamp < pots[p].expiresAt
           /\ e.type = "PotExpired" => e.timestamp >= pots[p].expiresAt
           /\ e.type = "PotSolved" => ~HasEvent("PotExpired", p)

C33_Witness ==
    \E p \in ActivePots : \E a \in AttemptsOn(p) :
        /\ now = pots[p].expiresAt
        /\ now < attempts[a].expiresAt
        /\ ~attempts[a].isCompleted
        /\ expirePotErr(p) = "ok"
        /\ attemptCompletedErr(verifier, a, TRUE) = "ExpiredPot"

\* C34: at most one attempt of a pot is ever resolved as succeeded; once
\* the pot is closed, by a solution or by its expiry, attemptCompleted on
\* each of its pending attempts fails for every caller, with PotNotActive
\* when the verifier calls, and the attempt stays pending for good
Succeeded(p) == {a \in AttemptsOn(p) : outcome[a] = "succeeded"}
PendingOn(p) == {a \in AttemptsOn(p) : ~attempts[a].isCompleted}

C34_OneWinnerPerPot ==
    /\ [](\A p \in Created :
            /\ Cardinality(Succeeded(p)) <= 1
            /\ Succeeded(p) # {} => ~pots[p].isActive
            /\ ~pots[p].isActive =>
                 \A a \in PendingOn(p), s \in BOOLEAN :
                    /\ \A c \in Users : attemptCompletedErr(c, a, s) # "ok"
                    /\ verifier \in Users =>
                         attemptCompletedErr(verifier, a, s) = "PotNotActive")
    /\ [][attempts' = attempts
          \/ \A a \in Stored :
                ~pots[attempts[a].potId].isActive /\ ~attempts[a].isCompleted
                    => ~attempts'[a].isCompleted]_vars

\* a solved pot with a second attempt left pending, its own window and
\* the pot's time still open
C34_Witness ==
    \E p \in Created : \E a \in Succeeded(p), b \in PendingOn(p) :
        /\ a # b
        /\ now < attempts[b].expiresAt
        /\ now < pots[p].expiresAt
        /\ attemptCompletedErr(verifier, b, TRUE) = "PotNotActive"

\* C35: an attempt is resolved only at a time strictly before both its
\* own expiresAt and its pot's expiresAt; an attempt made less than
\* ATTEMPT_WINDOW before the pot's expiry ends in ExpiredPot from the
\* pot's expiresAt on, while its own window is still open
Min(a, b) == IF a < b THEN a ELSE b
ResolvableUntil(a) ==
    Min(attempts[a].expiresAt, pots[attempts[a].potId].expiresAt)
MadeLate(a) ==
    attempts[a].expiresAt - ATTEMPT_WINDOW
        > pots[attempts[a].potId].expiresAt - ATTEMPT_WINDOW

C35_ResolvedBeforeBothExpiries ==
    /\ [](\A a \in Stored, s \in BOOLEAN :
            /\ \A c \in Users :
                  attemptCompletedErr(c, a, s) = "ok" => now < ResolvableUntil(a)
            /\ /\ verifier \in Users
               /\ MadeLate(a)
               /\ pots[attempts[a].potId].isActive
               /\ now >= pots[attempts[a].potId].expiresAt
               => attemptCompletedErr(verifier, a, s) = "ExpiredPot")
    /\ [][attempts' = attempts
          \/ \A a \in Stored :
                ~attempts[a].isCompleted /\ attempts'[a].isCompleted
                    => now < ResolvableUntil(a)]_vars

\* the pot's time is up, the window of an attempt made late is not, and a
\* resolution in time is on record beside it
C35_Witness ==
    /\ \E a \in Stored :
          /\ MadeLate(a)
          /\ ~attempts[a].isCompleted
          /\ pots[attempts[a].potId].isActive
          /\ pots[attempts[a].potId].expiresAt <= now
          /\ now < attempts[a].expiresAt
          /\ attemptCompletedErr(verifier, a, FALSE) = "ExpiredPot"
    /\ \E b \in Stored : attempts[b].isCompleted

\* C36: attemptsCount of every pot is the number of stored attempts of
\* that pot, nextAttemptId is the sum of the counts, the attempt ids are
\* 0..nextAttemptId-1 in the order of the calls over all pots, and every
\* stored attempt names a created pot that was active and unexpired when
\* the attempt was made
AttemptedEvents == {i \in 1..Len(events) : events[i].type = "PotAttempted"}
MadeAt(a) == attempts[a].expiresAt - ATTEMPT_WINDOW

C36_AttemptBookkeeping ==
    /\ \A p \in PotIds : pots[p].attemptsCount = Cardinality(AttemptsOn(p))
    /\ nextAttemptId =
          SetSum([p \in PotIds |-> pots[p].attemptsCount], PotIds)
    /\ Cardinality(AttemptedEvents) = nextAttemptId
    /\ \A i \in AttemptedEvents, j \in AttemptedEvents :
          i < j => events[i].id < events[j].id
    /\ \A a \in AttemptIds \ Stored : attempts[a] = ZeroAttempt
    /\ \A a \in Stored :
          LET p == attempts[a].potId IN
          /\ attempts[a].id = a
          /\ p \in Created
          /\ pots[p].createdAt <= MadeAt(a)
          /\ MadeAt(a) < pots[p].expiresAt
          /\ \E i \in AttemptedEvents :
                /\ events[i].id = a
                /\ events[i].pot = p
                /\ events[i].timestamp = MadeAt(a)
                /\ \A j \in ClosingEvents(p) : i < j

\* the first attempt on the second pot and the second on the first, one
\* of the pots closed since
C36_Witness ==
    /\ nextAttemptId = 2
    /\ attempts[0].potId = 1
    /\ attempts[1].potId = 0
    /\ \E p \in Created : ~pots[p].isActive

\* C37: once created, a pot keeps its id, creator, totalAmount, fee,
\* createdAt, expiresAt and oneFaAddress, and an attempt its id, potId,
\* hunter, expiresAt and difficulty.  A step that emits PotCreated leaves
\* the pots and attempts that exist alone; one that emits PotAttempted
\* changes attemptsCount of existing pots only; one that emits PotFailed,
\* PotSolved or PotExpired changes isActive and isCompleted only.
SamePotBut(old, new, field) ==
    CASE field = "attemptsCount" ->
            [new EXCEPT !.attemptsCount = old.attemptsCount] = old
      [] field = "isActive" -> [new EXCEPT !.isActive = old.isActive] = old

FixedOfPot(pot) ==
    <<pot.id, pot.creator, pot.totalAmount, pot.fee, pot.createdAt,
      pot.expiresAt, pot.oneFaAddress>>
FixedOfAttempt(attempt) ==
    <<attempt.id, attempt.potId, attempt.hunter, attempt.expiresAt,
      attempt.difficulty>>

C37_FixedFields ==
    [][(pots' = pots /\ attempts' = attempts)
       \/ /\ \A p \in Created : FixedOfPot(pots'[p]) = FixedOfPot(pots[p])
          /\ \A a \in Stored :
                FixedOfAttempt(attempts'[a]) = FixedOfAttempt(attempts[a])
          /\ events' # events
          /\ LastEvent'.type = "PotCreated" =>
                /\ \A p \in Created : pots'[p] = pots[p]
                /\ attempts' = attempts
          /\ LastEvent'.type = "PotAttempted" =>
                /\ \A p \in Created :
                      SamePotBut(pots[p], pots'[p], "attemptsCount")
                /\ \A a \in Stored : attempts'[a] = attempts[a]
          /\ LastEvent'.type \in {"PotFailed", "PotSolved", "PotExpired"} =>
                /\ \A p \in PotIds : SamePotBut(pots[p], pots'[p], "isActive")
                /\ \A a \in AttemptIds :
                      [attempts'[a] EXCEPT !.isCompleted =
                          attempts[a].isCompleted] = attempts[a]
                /\ nextPotId' = nextPotId
                /\ nextAttemptId' = nextAttemptId]_vars

\* a pot that was attempted, had an attempt fail and another succeed
C37_Witness ==
    \E p \in Created :
        /\ pots[p].attemptsCount = 2
        /\ ~pots[p].isActive
        /\ \E a \in AttemptsOn(p), b \in AttemptsOn(p) :
              outcome[a] = "failed" /\ outcome[b] = "succeeded"

\* C38: the custody surplus, the custody balance less the stakes of the
\* active pots, never decreases: what custody keeps of entry fees and of
\* solved pots is never paid out, whoever calls whatever
Surplus == balances[Escrow] - ActiveStakes

C38_SurplusNeverDecreases == [][Surplus' >= Surplus]_vars

\* C39: the event log follows the lifecycle.  PotCreated of a pot comes
\* before every PotAttempted of it; PotFailed comes after the PotAttempted
\* of its attempt, PotSolved after a PotAttempted of its pot by its
\* hunter; a pot has at most one PotSolved or PotExpired, and no event of
\* the pot or of its attempts after it.  A step that goes through emits
\* exactly one event, of the type of what it did, and a step that changes
\* no pot and no attempt emits none.
Closes(p) == pots[p].isActive /\ ~pots'[p].isActive

C39_EventOrder ==
    /\ [](\A i \in 1..Len(events) :
            LET e == events[i] IN
            /\ e.type = "PotCreated" =>
                  \A j \in 1..Len(events) :
                     events[j].type = "PotCreated" /\ events[j].id = e.id
                        => j = i
            /\ e.type = "PotAttempted" =>
                  \E j \in 1..(i - 1) :
                     events[j].type = "PotCreated" /\ events[j].id = e.pot
            /\ e.type = "PotFailed" =>
                  \E j \in 1..(i - 1) :
                     /\ events[j].type = "PotAttempted"
                     /\ events[j].id = e.id
                     /\ events[j].who = e.who
            /\ e.type = "PotSolved" =>
                  \E j \in 1..(i - 1) :
                     /\ events[j].type = "PotAttempted"
                     /\ events[j].pot = e.id
                     /\ events[j].who = e.who
            /\ e.type \in {"PotSolved", "PotExpired"} =>
                  /\ ClosingEvents(e.id) = {i}
                  /\ \A j \in (i + 1)..Len(events) :
                        PotOfEvent(events[j]) # e.id)
    /\ [][\/ events' = events /\ pots' = pots /\ attempts' = attempts
          \/ /\ Len(events') = Len(events) + 1
             /\ SubSeq(events', 1, Len(events)) = events
             /\ LastEvent'.timestamp = now
             /\ LastEvent'.type = "PotCreated" <=> nextPotId' # nextPotId
             /\ LastEvent'.type = "PotAttempted"
                   <=> nextAttemptId' # nextAttemptId
             /\ LastEvent'.type = "PotSolved" <=>
                   (attempts' # attempts /\ \E p \in Created : Closes(p))
             /\ LastEvent'.type = "PotExpired" <=>
                   (attempts' = attempts /\ \E p \in Created : Closes(p))
             /\ LastEvent'.type = "PotFailed" <=>
                   /\ attempts' # attempts
                   /\ nextAttemptId' = nextAttemptId
                   /\ pots' = pots]_vars

\* a pot attempted twice, the first attempt failed and the second solved
C39_Witness ==
    /\ Len(events) >= 5
    /\ \E p \in Created :
          /\ HasEvent("PotSolved", p)
          /\ \E a \in AttemptsOn(p) : HasEvent("PotFailed", a)
    /\ LastEvent.type = "PotSolved"

=============================================================================
